---------------------------- MODULE Spec2Model ----------------------------
(***************************************************************************)
(* A model of the streaming Connection Manager (WebSocketClient,           *)
(* src/src/websocket/connection.ts).                                       *)
(*                                                                         *)
(* The manager's fields are the variables.  Every method and every         *)
(* lifecycle handler of the class is an operator from a manager state (a   *)
(* record holding the fields) to the manager state after the call, so that *)
(* calls compose the way they do in the source (handleClose calls          *)
(* stopPingInterval and reconnect, the heartbeat callback calls close and  *)
(* then connect, ...).  An action of the model is one task of the event    *)
(* loop: a call by the application, one event reported by a transport, or  *)
(* one timer callback, together with the promise reactions (microtasks) it *)
(* triggers.                                                               *)
(*                                                                         *)
(* Time is kept relative: every timer holds the time left until it fires   *)
(* and pongAge holds Date.now() - lastPongReceived.  Time advances from    *)
(* one instant at which a timer is due to the next one (Tick); calls of    *)
(* the application and events of the transports happen at these instants,  *)
(* before or after the timers that are due.  All delays are multiples of   *)
(* initialReconnectDelay (1000 ms).                                        *)
(***************************************************************************)
EXTENDS Integers, Sequences, FiniteSets, TLC

(***************************************************************************)
(* Bounds of the model.                                                    *)
(***************************************************************************)
\* number of connection attempts (promises / transports) one run may create
MaxTransports == 3
\* the constructor argument maxReconnectAttempts (default 5 in the source)
maxReconnectAttempts == 3
\* longest string among the scalars of a payload
MaxStrLen == 3
\* most items of an array, and entries of an object, of a payload
MaxWidth == 2
\* number of metadata refreshes that may be in flight at once
MaxInFlight == 2
\* refreshes started in a run with a changing server
MaxStarted == 4
\* largest value the consecutive-failure counter is followed to
FailureCap == 7

(***************************************************************************)
(* Program constants.                                                      *)
(***************************************************************************)
initialReconnectDelay == 1000
maxReconnectDelay == 30000
PingPeriod == 15000
PongTimeout == 30000
MAX_SUBSCRIPTIONS == 1000
maxConsecutiveFailures == 5

\* pongAge saturates above the largest age the heartbeat tolerates
AgeCap == PongTimeout + PingPeriod + initialReconnectDelay

Ids == 1..MaxTransports
\* who starts a refresh: initialize(), the periodic timer, a direct call
\* the subscription keys the application uses
Keys == {"allMids", "trades:BTC", "l2Book:ETH"}

Origins == {"initialize", "timer", "direct"}
Events == {"open", "message", "close", "error", "reconnect",
           "maxReconnectAttemptsReached"}
NoEvents == [e \in Events |-> 0]

Min(a, b) == IF a < b THEN a ELSE b

VARIABLES
    WebSocketImpl,      \* TRUE iff the constructor found a WebSocket implementation
    ws,                 \* this.ws: id of the transport held, 0 for null
    readyState,         \* readyState of every transport ("NONE": not created)
    connected,          \* this.connected
    connecting,         \* this.connecting
    connectionPromise,  \* this.connectionPromise: id of the promise, 0 for null
    promiseState,       \* state of the promise created by the id-th connect()
    waiters,            \* then/catch reactions a reconnect timer attached to it
    reconnectAttempts,  \* this.reconnectAttempts
    timers,             \* pending reconnect timers: the time left of each, ascending
    pingInterval,       \* this.pingInterval: id of the interval held, 0 for null
    pingTimers,         \* every interval: time left to its next tick, -1 if cleared
    pongAge,            \* Date.now() - this.lastPongReceived, saturated at AgeCap
    nextId,             \* id the next connection attempt gets
    subscriptionCount,  \* this.subscriptionCount
    \* what the last task did (rewritten by every action)
    task,               \* the kind of task
    emitted,            \* events emitted: event name -> how many times
    scheduled,          \* reconnect timers scheduled: sequence of <<attempt, delay>>
    sent,               \* frames written: sequence of <<transport, frame>>
    ret,                \* what connect() returned to the application, if called
    \* history
    closedByUser,       \* the application called close() and not connect() since
    sinceOpen,          \* a transport opened while no other was alive and no
                        \* reconnect timer was pending, and since then the
                        \* application made no call and no heartbeat timed out
    firedRun,           \* while sinceOpen: reconnect timers fired since that open
    maxReachedRun,      \* while sinceOpen: 'maxReconnectAttemptsReached' emitted
    openedSinceReconnect  \* a transport opened since the last 'reconnect' event

\* SymbolConversion (src/src/utils/symbolConversion.ts): the instance, the
\* refreshes it has in flight, and the history of its refreshes, as one record
VARIABLE symbolConversion

\* Map: sequence of <<key, value>> in insertion order
assetToIndexMap == symbolConversion.assetToIndexMap
\* Map: sequence of <<key, value>> in insertion order
exchangeToInternalNameMap == symbolConversion.exchangeToInternalNameMap
\* Set of token names
spotTokensSet == symbolConversion.spotTokensSet
\* this.initialized
initialized == symbolConversion.initialized
\* this.consecutiveFailures
consecutiveFailures == symbolConversion.consecutiveFailures
\* this.refreshInterval # null
refreshInterval == symbolConversion.refreshInterval
\* refreshAssetMaps calls awaiting their two requests, counted by who
\* started them
pending == symbolConversion.pending
\* history: the maps and token set the last successful refresh built
lastGood == symbolConversion.lastGood
\* history: periodic refreshes failed since the last success
periodicFails == symbolConversion.periodicFails
\* history: initialize() started the timer and since then no refresh of
\* another origin failed and the application did not stop the timer
cleanRun == symbolConversion.cleanRun
\* history: the failure handling stopped the timer
selfDisabled == symbolConversion.selfDisabled
\* name of the response the last task consumed
response == symbolConversion.response

\* ExchangeAPI (src/src/rest/exchange.ts): the field _i, whether the timeout
\* of getAssetIndex is pending, the actions the last task signed and the
\* requests it sent, the field lastNonceTimestamp, and the history: whether
\* every operation so far failed, and the nonces returned so far
VARIABLE exchange

\* Hyperliquid (src/unnamed/part_000): the fields _initialized, _initializing
\* (a promise or null) and enableWs, what the function behind _initializing
\* awaits and what the connect() it called awaits, and the calls that await
\* _initializing
VARIABLE client

\* Subscription Registry (spec.md 4.2): the number of listeners of each key,
\* and the history: the subscribe wire messages sent for the key less the
\* unsubscribe wire messages
VARIABLE registry

\* the server's metadata and the refreshes in flight: the generation the
\* server has, the number of refreshes started, and for every refresh whose
\* requests have not settled its origin, its place in the order of the
\* starts and the generation its requests fetch
VARIABLE flights

symbols == <<symbolConversion, exchange, client, registry, flights>>

\* the fields of the connection, and all fields of the manager
connection == <<WebSocketImpl, ws, readyState, connected, connecting,
                connectionPromise, promiseState, waiters, reconnectAttempts,
                timers, pingInterval, pingTimers, pongAge, nextId>>
fields == <<connection, subscriptionCount>>
history == <<closedByUser, firedRun, maxReachedRun, sinceOpen,
             openedSinceReconnect>>
vars == <<fields, task, emitted, scheduled, sent, ret, history, symbols>>

(***************************************************************************)
(* The manager state an event-loop task starts from: the fields, empty     *)
(* logs of what the task emits, schedules and sends, and whether a call    *)
(* has thrown.                                                             *)
(***************************************************************************)
This ==
    [ws |-> ws, readyState |-> readyState, connected |-> connected,
     connecting |-> connecting, connectionPromise |-> connectionPromise,
     promiseState |-> promiseState, waiters |-> waiters,
     reconnectAttempts |-> reconnectAttempts, timers |-> timers,
     pingInterval |-> pingInterval, pingTimers |-> pingTimers,
     pongAge |-> pongAge, nextId |-> nextId,
     subscriptionCount |-> subscriptionCount,
     emitted |-> NoEvents, scheduled |-> <<>>, sent |-> <<>>, thrown |-> FALSE,
     firedRun |-> firedRun, maxReachedRun |-> maxReachedRun,
     sinceOpen |-> sinceOpen,
     openedSinceReconnect |-> openedSinceReconnect]

\* the task ends in manager state s
Becomes(s0) ==
  \E s \in {s0} :
    /\ ws' = s.ws
    /\ readyState' = s.readyState
    /\ connected' = s.connected
    /\ connecting' = s.connecting
    /\ connectionPromise' = s.connectionPromise
    /\ promiseState' = s.promiseState
    /\ waiters' = s.waiters
    /\ reconnectAttempts' = s.reconnectAttempts
    /\ timers' = s.timers
    /\ pingInterval' = s.pingInterval
    /\ pingTimers' = s.pingTimers
    /\ pongAge' = s.pongAge
    /\ nextId' = s.nextId
    /\ emitted' = s.emitted
    /\ scheduled' = s.scheduled
    /\ sent' = s.sent
    /\ firedRun' = s.firedRun
    /\ maxReachedRun' = s.maxReachedRun
    /\ sinceOpen' = s.sinceOpen
    /\ openedSinceReconnect' = s.openedSinceReconnect
    /\ UNCHANGED <<WebSocketImpl, subscriptionCount, symbols>>

NoReturn == [kind |-> "none", id |-> 0]
Immediate == [kind |-> "resolved", id |-> 0]
Returned(b) == [kind |-> IF b THEN "true" ELSE "false", id |-> 0]
PromiseRef(p) == [kind |-> "promise", id |-> p]

(***************************************************************************)
(* The methods of WebSocketClient.                                         *)
(***************************************************************************)
emit(s, e) ==
    LET s1 == [s EXCEPT !.emitted[e] = @ + 1]
    IN  CASE e = "reconnect" -> [s1 EXCEPT !.openedSinceReconnect = FALSE]
          [] e = "maxReconnectAttemptsReached" ->
                 [s1 EXCEPT !.maxReachedRun = IF s.sinceOpen THEN @ + 1 ELSE 0]
          [] OTHER -> s1

isConnected(s) ==
    s.connected /\ s.ws # 0 /\ s.readyState[s.ws] = "OPEN"

ReconnectDelay(k) ==
    Min(initialReconnectDelay * 2 ^ (k - 1), maxReconnectDelay)

\* setTimeout(callback, delay): the timers in the order in which they fire
setTimeout(q, delay) ==
    LET n == Cardinality({j \in 1..Len(q) : q[j] <= delay})
    IN  SubSeq(q, 1, n) \o <<delay>> \o SubSeq(q, n + 1, Len(q))

reconnect(s) ==
    IF s.reconnectAttempts < maxReconnectAttempts
    THEN LET k == s.reconnectAttempts + 1
             delay == ReconnectDelay(k)
         IN  [s EXCEPT !.reconnectAttempts = k,
                       !.timers = setTimeout(@, delay),
                       !.scheduled = Append(@, <<k, delay>>)]
    ELSE emit(s, "maxReconnectAttemptsReached")

startPingInterval(s, i) ==
    [s EXCEPT !.pingInterval = i, !.pingTimers[i] = PingPeriod]

stopPingInterval(s) ==
    IF s.pingInterval # 0
    THEN [s EXCEPT !.pingTimers[s.pingInterval] = -1, !.pingInterval = 0]
    ELSE s

\* a faulty sendMessage that writes whatever the connection state is (told
\* apart by C11)
sendMessageUnguarded(s, frame) ==
    IF s.ws # 0 THEN [s EXCEPT !.sent = Append(@, <<s.ws, frame>>)]
                ELSE [s EXCEPT !.thrown = TRUE]

sendMessage(s, frame) ==
    IF ~isConnected(s)
    THEN [s EXCEPT !.thrown = TRUE]
    ELSE [s EXCEPT !.sent = Append(@, <<s.ws, frame>>)]

\* ws.close() of the transport: the closing handshake starts
socketClose(rs) ==
    IF rs \in {"CONNECTING", "OPEN"} THEN "CLOSING" ELSE rs

close(s) ==
    IF s.ws # 0
    THEN stopPingInterval([s EXCEPT !.connected = FALSE,
                                    !.connecting = FALSE,
                                    !.readyState[s.ws] = socketClose(@)])
    ELSE stopPingInterval(s)

\* a faulty connect whose catch block leaves this.connecting set (told apart
\* by C13)
connectLeavingConnecting(s) ==
    IF isConnected(s)
    THEN [s |-> s, ret |-> Immediate]
    ELSE IF s.connecting /\ s.connectionPromise # 0
    THEN [s |-> s, ret |-> PromiseRef(s.connectionPromise)]
    ELSE LET p == s.nextId
         IN  IF ~WebSocketImpl
             THEN [s |-> [s EXCEPT !.connecting = TRUE,
                                   !.connectionPromise = p,
                                   !.promiseState[p] = "rejected",
                                   !.nextId = p + 1],
                   ret |-> PromiseRef(p)]
             ELSE [s |-> [s EXCEPT !.connecting = TRUE,
                                   !.connectionPromise = p,
                                   !.promiseState[p] = "pending",
                                   !.ws = p,
                                   !.readyState[p] = "CONNECTING",
                                   !.nextId = p + 1],
                   ret |-> PromiseRef(p)]

\* connect(): the manager state after the call and the promise returned
connect(s) ==
    IF isConnected(s)
    THEN [s |-> s, ret |-> Immediate]
    ELSE IF s.connecting /\ s.connectionPromise # 0
    THEN [s |-> s, ret |-> PromiseRef(s.connectionPromise)]
    ELSE LET p == s.nextId
         IN  IF ~WebSocketImpl
             THEN \* the executor throws: the catch block rejects the promise
                  [s |-> [s EXCEPT !.connecting = FALSE,
                                   !.connectionPromise = p,
                                   !.promiseState[p] = "rejected",
                                   !.nextId = p + 1],
                   ret |-> PromiseRef(p)]
             ELSE [s |-> [s EXCEPT !.connecting = TRUE,
                                   !.connectionPromise = p,
                                   !.promiseState[p] = "pending",
                                   !.ws = p,
                                   !.readyState[p] = "CONNECTING",
                                   !.nextId = p + 1],
                   ret |-> PromiseRef(p)]

\* would connect() construct a new promise (and transport) in state s
Constructs(s) ==
    ~isConnected(s) /\ ~(s.connecting /\ s.connectionPromise # 0)

\* a faulty incrementSubscriptionCount that refuses one call too late (told
\* apart by C12)
incrementSubscriptionCountLate(s) ==
    IF s.subscriptionCount > MAX_SUBSCRIPTIONS
    THEN [s |-> s, ret |-> Returned(FALSE)]
    ELSE [s |-> [s EXCEPT !.subscriptionCount = @ + 1], ret |-> Returned(TRUE)]

\* a faulty incrementSubscriptionCount that grants without counting (told
\* apart by C33)
incrementSubscriptionCountUncounted(s) ==
    IF s.subscriptionCount >= MAX_SUBSCRIPTIONS
    THEN [s |-> s, ret |-> Returned(FALSE)]
    ELSE [s |-> s, ret |-> Returned(TRUE)]

incrementSubscriptionCount(s) ==
    IF s.subscriptionCount >= MAX_SUBSCRIPTIONS
    THEN [s |-> s, ret |-> Returned(FALSE)]
    ELSE [s |-> [s EXCEPT !.subscriptionCount = @ + 1], ret |-> Returned(TRUE)]

decrementSubscriptionCount(s) ==
    IF s.subscriptionCount > 0
    THEN [s EXCEPT !.subscriptionCount = @ - 1]
    ELSE s

(***************************************************************************)
(* Promises: resolve / reject of the promise of attempt p, and the         *)
(* reactions `.then(() => emit('reconnect')).catch(err => {emit('error');  *)
(* reconnect()})` that the reconnect timers attached to it.                *)
(***************************************************************************)
resolve(s, p) ==
    IF s.promiseState[p] = "pending"
    THEN [s EXCEPT !.promiseState[p] = "resolved"] ELSE s

reject(s, p) ==
    IF s.promiseState[p] = "pending"
    THEN [s EXCEPT !.promiseState[p] = "rejected"] ELSE s

onFulfilled(s) == emit(s, "reconnect")

onRejected(s) == reconnect(emit(s, "error"))

\* n reactions on a promise that settled as `settled`, in turn
RECURSIVE reactions(_, _, _)
reactions(s, settled, n) ==
    IF n = 0 THEN s
    ELSE reactions(IF settled = "resolved" THEN onFulfilled(s) ELSE onRejected(s),
                   settled, n - 1)

\* the microtasks run after the task that settled promise p
runReactions(s, p) ==
    IF s.promiseState[p] \in {"resolved", "rejected"}
    THEN reactions([s EXCEPT !.waiters[p] = 0], s.promiseState[p], s.waiters[p])
    ELSE s

(***************************************************************************)
(* The lifecycle handlers connect() wires to transport t.                  *)
(***************************************************************************)
\* a faulty handleOpen that keeps the attempt counter (told apart by C5)
handleOpenKeepingAttempts(s, t) ==
    LET s1 == [s EXCEPT !.connected = TRUE,
                        !.connecting = FALSE,
                        !.pongAge = 0,
                        !.openedSinceReconnect = TRUE,
                        !.sinceOpen = FALSE,
                        !.firedRun = 0,
                        !.maxReachedRun = 0]
    IN  resolve(emit(startPingInterval(s1, t), "open"), t)

handleOpen(s, t) ==
    LET s1 == [s EXCEPT !.connected = TRUE,
                        !.connecting = FALSE,
                        !.reconnectAttempts = 0,
                        !.pongAge = 0,
                        !.openedSinceReconnect = TRUE,
                        !.sinceOpen = /\ s.timers = <<>>
                                      /\ \A u \in Ids \ {t} :
                                            s.readyState[u] \in {"NONE", "CLOSED"},
                        !.firedRun = 0,
                        !.maxReachedRun = 0]
    IN  resolve(emit(startPingInterval(s1, t), "open"), t)

\* a faulty handleMessage that ignores the pong (told apart by C7)
handleMessageIgnoringPong(s, channel) == emit(s, "message")

\* a faulty handleMessage that hands the frame it failed to decode to the
\* listeners as well (told apart by C14)
handleMessageForwardingGarbage(s, channel) ==
    LET s1 == IF channel = "pong" THEN [s EXCEPT !.pongAge = 0] ELSE s
    IN  IF channel = "malformed" THEN emit(emit(s1, "error"), "message")
                                 ELSE emit(s1, "message")

\* channel is data.channel of the decoded frame, "malformed" if JSON.parse
\* (or reading the channel of the decoded value) throws
handleMessage(s, channel) ==
    IF channel = "malformed"
    THEN emit(s, "error")
    ELSE LET s1 == IF channel = "pong" THEN [s EXCEPT !.pongAge = 0] ELSE s
         IN  emit(s1, "message")

handleError(s, t) ==
    LET s1 == emit(s, "error")
    IN  IF ~s1.connected
        THEN reject([s1 EXCEPT !.connecting = FALSE], t)
        ELSE s1

\* a faulty handleClose that schedules no reconnection (told apart by C10)
handleCloseWithoutReconnect(s) ==
    LET s1 == [s EXCEPT !.connected = FALSE, !.connecting = FALSE]
    IN  emit(stopPingInterval(s1), "close")

handleClose(s) ==
    LET s1 == [s EXCEPT !.connected = FALSE, !.connecting = FALSE]
    IN  reconnect(emit(stopPingInterval(s1), "close"))

\* the callback of a reconnect timer
reconnectTimeout(s) ==
    LET r == connect(s)
        s1 == [r.s EXCEPT !.firedRun = IF s.sinceOpen THEN @ + 1 ELSE 0]
    IN  IF r.ret.kind = "resolved"
        THEN onFulfilled(s1)
        ELSE runReactions([s1 EXCEPT !.waiters[r.ret.id] = @ + 1], r.ret.id)

\* a call of the application and a heartbeat timeout end the run the history
\* counters follow
EndsRun(s) ==
    [s EXCEPT !.firedRun = 0, !.maxReachedRun = 0, !.sinceOpen = FALSE]

\* a faulty heartbeat callback that checks the pong one period late (told
\* apart by C6)
pingTickOnePeriodLate(s) ==
    IF isConnected(s)
    THEN LET s1 == sendMessage(s, "ping")
         IN  IF s1.pongAge > PongTimeout + PingPeriod
             THEN connect(close(EndsRun(s1))).s
             ELSE s1
    ELSE s

\* the callback of a heartbeat interval
pingTick(s) ==
    IF isConnected(s)
    THEN LET s1 == sendMessage(s, "ping")
         IN  IF s1.pongAge > PongTimeout
             THEN connect(close(EndsRun(s1))).s
             ELSE s1
    ELSE s

(***************************************************************************)
(* Initial state: the object after construction.                           *)
(***************************************************************************)
Init ==
    /\ WebSocketImpl \in BOOLEAN
    /\ ws = 0
    /\ readyState = [t \in Ids |-> "NONE"]
    /\ connected = FALSE
    /\ connecting = FALSE
    /\ connectionPromise = 0
    /\ promiseState = [t \in Ids |-> "none"]
    /\ waiters = [t \in Ids |-> 0]
    /\ reconnectAttempts = 0
    /\ timers = <<>>
    /\ pingInterval = 0
    /\ pingTimers = [t \in Ids |-> -1]
    /\ pongAge = AgeCap
    /\ nextId = 1
    /\ subscriptionCount = 0
    /\ flights = [server |-> "Gen1", started |-> 0, inFlight |-> {}]
    /\ registry = [listeners |-> [key \in Keys |-> 0],
                   outstanding |-> [key \in Keys |-> 0]]
    /\ client = [_initialized |-> FALSE, _initializing |-> FALSE,
                 \* the default true, and false without WebSocket support
                 enableWs |-> WebSocketImpl, awaits |-> "none",
                 connectAwaits |-> "none", calls |-> 0]
    /\ exchange = [_i |-> 0, referrer |-> FALSE, signed |-> <<>>,
                   requests |-> <<>>, failedOnly |-> TRUE,
                   lastNonceTimestamp |-> 0, nonces |-> <<>>]
    /\ symbolConversion = [assetToIndexMap |-> <<>>,
                           exchangeToInternalNameMap |-> <<>>,
                           spotTokensSet |-> {},
                           initialized |-> FALSE,
                           consecutiveFailures |-> 0,
                           refreshInterval |-> FALSE,
                           pending |-> [o \in Origins |-> 0],
                           lastGood |-> <<<<>>, <<>>, {}>>,
                           periodicFails |-> 0,
                           cleanRun |-> FALSE,
                           selfDisabled |-> FALSE,
                           response |-> "none"]
    /\ task = "new"
    /\ emitted = NoEvents
    /\ scheduled = <<>>
    /\ sent = <<>>
    /\ ret = NoReturn
    /\ closedByUser = FALSE
    /\ firedRun = 0
    /\ maxReachedRun = 0
    /\ sinceOpen = FALSE
    /\ openedSinceReconnect = FALSE

(***************************************************************************)
(* Actions.                                                                *)
(***************************************************************************)
\* the application calls connect()
UserConnect ==
    /\ Constructs(This) => nextId <= MaxTransports
    /\ LET r == connect(EndsRun(This))
       IN  /\ Becomes(r.s)
           /\ ret' = r.ret
    /\ task' = "connect"
    /\ closedByUser' = FALSE

\* the application calls close()
UserClose ==
    /\ Becomes(close(EndsRun(This)))
    /\ task' = "close"
    /\ ret' = NoReturn
    /\ closedByUser' = TRUE

\* transport t reports open
TransportOpen(t) ==
    /\ readyState[t] = "CONNECTING"
    /\ Becomes(runReactions(
           handleOpen([This EXCEPT !.readyState[t] = "OPEN"], t), t))
    /\ task' = "open"
    /\ ret' = NoReturn
    /\ UNCHANGED closedByUser

\* the connection attempt of transport t fails (refused, or aborted by close()
\* before it opened): the transport reports error and then close
TransportFail(t) ==
    /\ \/ readyState[t] = "CONNECTING"
       \/ readyState[t] = "CLOSING" /\ promiseState[t] # "resolved"
    /\ Becomes(runReactions(
           handleClose(handleError([This EXCEPT !.readyState[t] = "CLOSED"], t)),
           t))
    /\ task' = "fail"
    /\ ret' = NoReturn
    /\ UNCHANGED closedByUser

\* the open transport t starts closing (the peer's close frame or a socket
\* error arrived); with failed = TRUE it reports an error
TransportClosing(t, failed) ==
    /\ readyState[t] = "OPEN"
    /\ LET s == [This EXCEPT !.readyState[t] = "CLOSING"]
       IN  Becomes(IF failed THEN handleError(s, t) ELSE s)
    /\ task' = "closing"
    /\ ret' = NoReturn
    /\ UNCHANGED closedByUser

\* the transport t, which had opened, reports close
TransportClose(t) ==
    /\ readyState[t] \in {"OPEN", "CLOSING"}
    /\ promiseState[t] = "resolved"
    /\ Becomes(handleClose([This EXCEPT !.readyState[t] = "CLOSED"]))
    /\ task' = "closed"
    /\ ret' = NoReturn
    /\ UNCHANGED closedByUser

\* the open transport t delivers {channel: 'pong'}
Pong(t) ==
    /\ readyState[t] = "OPEN"
    /\ Becomes(handleMessage(This, "pong"))
    /\ task' = "pong"
    /\ ret' = NoReturn
    /\ UNCHANGED closedByUser

\* a reconnect timer is due
ReconnectTimer ==
    /\ timers # <<>>
    /\ Head(timers) = 0
    /\ LET s == [This EXCEPT !.timers = Tail(@)]
       IN  /\ Constructs(s) => nextId <= MaxTransports
           /\ Becomes(reconnectTimeout(s))
    /\ task' = "reconnectTimer"
    /\ ret' = NoReturn
    /\ UNCHANGED closedByUser

\* the heartbeat interval i is due
PingTimer(i) ==
    /\ pingTimers[i] = 0
    /\ LET s == [This EXCEPT !.pingTimers[i] = PingPeriod]
       IN  /\ (isConnected(s) /\ s.pongAge > PongTimeout) => nextId <= MaxTransports
           /\ Becomes(pingTick(s))
    /\ task' = "pingTimer"
    /\ ret' = NoReturn
    /\ UNCHANGED closedByUser

\* the times left of the timers that are running
Running ==
    {timers[j] : j \in 1..Len(timers)} \cup
    {pingTimers[i] : i \in {j \in Ids : pingTimers[j] >= 0}}

\* time passes until the next timer is due
Tick ==
    /\ Running # {}
    /\ 0 \notin Running
    /\ LET delta == CHOOSE d \in Running : \A e \in Running : d <= e
       IN  /\ timers' = [j \in 1..Len(timers) |-> timers[j] - delta]
           /\ pingTimers' = [i \in Ids |->
                           IF pingTimers[i] > 0 THEN pingTimers[i] - delta
                                                ELSE pingTimers[i]]
           /\ pongAge' = Min(pongAge + delta, AgeCap)
    /\ task' = "tick"
    /\ emitted' = NoEvents
    /\ scheduled' = <<>>
    /\ sent' = <<>>
    /\ ret' = NoReturn
    /\ UNCHANGED <<WebSocketImpl, ws, readyState, connected, connecting,
                   connectionPromise, promiseState, waiters, reconnectAttempts,
                   pingInterval, nextId, subscriptionCount, history, symbols>>

Next ==
    \/ UserConnect
    \/ UserClose
    \/ \E t \in Ids : TransportOpen(t)
    \/ \E t \in Ids : TransportFail(t)
    \/ \E t \in Ids : \E failed \in BOOLEAN : TransportClosing(t, failed)
    \/ \E t \in Ids : TransportClose(t)
    \/ \E t \in Ids : Pong(t)
    \/ ReconnectTimer
    \/ \E i \in Ids : PingTimer(i)
    \/ Tick

Spec == Init /\ [][Next]_vars

(***************************************************************************)
(* The connection manager with its data path: the application sends        *)
(* frames, the open transport delivers frames.                             *)
(***************************************************************************)
Thrown == [kind |-> "thrown", id |-> 0]

\* frames a transport delivers, by the channel they decode to
Channels == {"pong", "data", "malformed"}

\* the application calls sendMessage(payload)
UserSend ==
    /\ LET s == sendMessage(This, "payload")
       IN  /\ Becomes(s)
           /\ ret' = IF s.thrown THEN Thrown ELSE NoReturn
    /\ task' = "send"
    /\ UNCHANGED closedByUser

\* the open transport t delivers a frame
Frame(t, channel) ==
    /\ readyState[t] = "OPEN"
    /\ Becomes(handleMessage(This, channel))
    /\ task' = IF channel = "malformed" THEN "garbage" ELSE "frame"
    /\ ret' = NoReturn
    /\ UNCHANGED closedByUser

NextIO ==
    \/ Next
    \/ UserSend
    \/ \E t \in Ids : \E channel \in Channels \ {"pong"} : Frame(t, channel)

IOSpec == Init /\ [][NextIO]_vars

(***************************************************************************)
(* SymbolConversion (src/src/utils/symbolConversion.ts, the class with the *)
(* failure counter).  A metadata response is what the two info requests of *)
(* one refresh return; a JavaScript value that may be missing is a record  *)
(* that says whether it is an array (or null) next to its content.         *)
(***************************************************************************)
Arr(items) == [isArray |-> TRUE, items |-> items]
Missing == [isArray |-> FALSE, items |-> <<>>]
Asset(name) == [isNull |-> FALSE, name |-> name]
NullAsset == [isNull |-> TRUE, name |-> ""]
Token(name, index) == [isNull |-> FALSE, name |-> name, index |-> index]
Market(name, index, tokens) == [name |-> name, index |-> index, tokens |-> tokens]

Meta(universe, tokens, markets) ==
    [failed |-> FALSE, perpUniverse |-> universe, spotTokens |-> tokens,
     spotUniverse |-> markets]

Tokens == Arr(<<Token("USDC", 0), Token("PURR", 1)>>)
Markets == Arr(<<Market("PURR/USDC", 0, Arr(<<1, 0>>))>>)

\* two well-formed generations of the metadata
Gen1 == Meta(Arr(<<Asset("BTC")>>), Tokens, Markets)
Gen2 == Meta(Arr(<<Asset("ETH"), Asset("BTC")>>), Tokens, Markets)
\* a request fails
FetchError == [Gen1 EXCEPT !.failed = TRUE]
\* responses of the wrong shape
NoPerpUniverse == Meta(Missing, Tokens, Markets)
NoSpotTokens == Meta(Arr(<<Asset("BTC")>>), Missing, Markets)
NoSpotUniverse == Meta(Arr(<<Asset("BTC")>>), Tokens, Missing)
\* responses of the right shape with a malformed element
NullPerpAsset == Meta(Arr(<<Asset("ETH"), NullAsset>>), Tokens, Markets)
MarketWithoutTokens ==
    Meta(Arr(<<Asset("ETH"), Asset("BTC")>>), Tokens,
         Arr(<<Market("PURR/USDC", 0, Missing)>>))

\* metadata in which one base token is paired with two quote tokens, and a
\* perpetual asset has the name of a spot token
Tokens3 == Arr(<<Token("USDC", 0), Token("PURR", 1), Token("USDT", 2)>>)
TwoQuotes ==
    Meta(Arr(<<Asset("BTC"), Asset("PURR")>>), Tokens3,
         Arr(<<Market("PURR/USDC", 0, Arr(<<1, 0>>)),
               Market("@1", 1, Arr(<<1, 2>>))>>))
\* metadata with a market whose quote token is not in the token list, and
\* markets that are not listed in the order of their indices
UnknownToken ==
    Meta(Arr(<<Asset("PURR")>>), Tokens,
         Arr(<<Market("@2", 2, Arr(<<1, 9>>)),
               Market("PURR/USDC", 0, Arr(<<1, 0>>))>>))

ResponseNames == {"Gen1", "Gen2", "FetchError", "NoPerpUniverse",
                  "NoSpotTokens", "NoSpotUniverse", "NullPerpAsset",
                  "MarketWithoutTokens"}

Response(name) ==
    CASE name = "Gen1" -> Gen1
      [] name = "Gen2" -> Gen2
      [] name = "FetchError" -> FetchError
      [] name = "NoPerpUniverse" -> NoPerpUniverse
      [] name = "NoSpotTokens" -> NoSpotTokens
      [] name = "NoSpotUniverse" -> NoSpotUniverse
      [] name = "NullPerpAsset" -> NullPerpAsset
      [] name = "MarketWithoutTokens" -> MarketWithoutTokens
      [] name = "TwoQuotes" -> TwoQuotes
      [] name = "UnknownToken" -> UnknownToken

\* Map.set: a new key is appended, a known key keeps its place
mapSet(m, k, v) ==
    IF \E i \in 1..Len(m) : m[i][1] = k
    THEN [i \in 1..Len(m) |-> IF m[i][1] = k THEN <<k, v>> ELSE m[i]]
    ELSE Append(m, <<k, v>>)

\* Map.has / Map.get
mapHas(m, k) == \E i \in 1..Len(m) : m[i][1] = k
mapGet(m, k) == m[CHOOSE i \in 1..Len(m) : m[i][1] = k][2]

\* the instance a call works on
Conv ==
    [assetToIndexMap |-> assetToIndexMap,
     exchangeToInternalNameMap |-> exchangeToInternalNameMap,
     spotTokensSet |-> spotTokensSet, initialized |-> initialized,
     consecutiveFailures |-> consecutiveFailures,
     refreshInterval |-> refreshInterval, selfDisabled |-> selfDisabled,
     thrown |-> FALSE]

stopPeriodicRefresh(s) == [s EXCEPT !.refreshInterval = FALSE]

startPeriodicRefresh(s) == [s EXCEPT !.refreshInterval = TRUE]

checkMaxFailures(s) ==
    IF s.consecutiveFailures >= maxConsecutiveFailures
    THEN [stopPeriodicRefresh(s) EXCEPT !.selfDisabled = s.refreshInterval \/ @]
    ELSE s

\* a faulty forEach that records the index of a perpetual asset and not its
\* exchange name (told apart by C38)
RECURSIVE forEachAssetIndexOnly(_, _, _)
forEachAssetIndexOnly(s, universe, i) ==
    IF s.thrown \/ i > Len(universe) THEN s
    ELSE LET asset == universe[i]
             internalName == asset.name \o "-PERP"
         IN  IF asset.isNull
             THEN [s EXCEPT !.thrown = TRUE]
             ELSE forEachAssetIndexOnly(
                      [s EXCEPT !.assetToIndexMap = mapSet(@, internalName, i - 1)],
                      universe, i + 1)

\* perpMeta[0].universe.forEach(...), from the i-th asset on
RECURSIVE forEachAsset(_, _, _)
forEachAsset(s, universe, i) ==
    IF s.thrown \/ i > Len(universe) THEN s
    ELSE LET asset == universe[i]
             internalName == asset.name \o "-PERP"
         IN  IF asset.isNull
             THEN [s EXCEPT !.thrown = TRUE]
             ELSE forEachAsset(
                      [s EXCEPT !.assetToIndexMap = mapSet(@, internalName, i - 1),
                                !.exchangeToInternalNameMap =
                                     mapSet(@, asset.name, internalName)],
                      universe, i + 1)

\* spotMeta[0].tokens.forEach(...), from the i-th token on
RECURSIVE forEachToken(_, _, _)
forEachToken(s, tokens, i) ==
    IF s.thrown \/ i > Len(tokens) THEN s
    ELSE LET token == tokens[i]
         IN  IF token.isNull
             THEN [s EXCEPT !.thrown = TRUE]
             ELSE forEachToken(
                      IF token.name # ""
                      THEN [s EXCEPT !.spotTokensSet = @ \cup {token.name}]
                      ELSE s,
                      tokens, i + 1)

\* tokens.find(t => t.index === index): <<>> if none, else <<the token>>
find(tokens, index) ==
    LET hits == {i \in 1..Len(tokens) : tokens[i].index = index}
    IN  IF hits = {} THEN <<>>
        ELSE <<tokens[CHOOSE i \in hits : \A j \in hits : i <= j]>>


\* a faulty forEach that numbers the markets by their position in the
\* universe, not by market.index (told apart by C24)
RECURSIVE forEachMarketByPosition(_, _, _, _)
forEachMarketByPosition(s, markets, tokens, i) ==
    IF s.thrown \/ i > Len(markets) THEN s
    ELSE LET market == markets[i]
             ids == market.tokens.items
             baseToken == IF Len(ids) >= 1 THEN find(tokens, ids[1]) ELSE <<>>
             quoteToken == IF Len(ids) >= 2 THEN find(tokens, ids[2]) ELSE <<>>
             baseQuoteFormat == baseToken[1].name \o "-" \o quoteToken[1].name
             marketIndex == 10000 + (i - 1)
         IN  IF ~market.tokens.isArray
             THEN [s EXCEPT !.thrown = TRUE]
             ELSE forEachMarketByPosition(
                      IF baseToken # <<>> /\ quoteToken # <<>>
                      THEN [s EXCEPT !.assetToIndexMap =
                                          mapSet(@, baseQuoteFormat, marketIndex),
                                     !.exchangeToInternalNameMap =
                                          mapSet(@, market.name, baseQuoteFormat)]
                      ELSE s,
                      markets, tokens, i + 1)

\* a faulty forEach that names a spot market after its base token alone
\* (told apart by C25)
RECURSIVE forEachMarketByBase(_, _, _, _)
forEachMarketByBase(s, markets, tokens, i) ==
    IF s.thrown \/ i > Len(markets) THEN s
    ELSE LET market == markets[i]
             ids == market.tokens.items
             baseToken == IF Len(ids) >= 1 THEN find(tokens, ids[1]) ELSE <<>>
             quoteToken == IF Len(ids) >= 2 THEN find(tokens, ids[2]) ELSE <<>>
             baseQuoteFormat == baseToken[1].name \o "-SPOT"
             marketIndex == 10000 + market.index
         IN  IF ~market.tokens.isArray
             THEN [s EXCEPT !.thrown = TRUE]
             ELSE forEachMarketByBase(
                      IF baseToken # <<>> /\ quoteToken # <<>>
                      THEN [s EXCEPT !.assetToIndexMap =
                                          mapSet(@, baseQuoteFormat, marketIndex),
                                     !.exchangeToInternalNameMap =
                                          mapSet(@, market.name, baseQuoteFormat)]
                      ELSE s,
                      markets, tokens, i + 1)

\* spotMeta[0].universe.forEach(...), from the i-th market on
RECURSIVE forEachMarket(_, _, _, _)
forEachMarket(s, markets, tokens, i) ==
    IF s.thrown \/ i > Len(markets) THEN s
    ELSE LET market == markets[i]
             ids == market.tokens.items
             baseToken == IF Len(ids) >= 1 THEN find(tokens, ids[1]) ELSE <<>>
             quoteToken == IF Len(ids) >= 2 THEN find(tokens, ids[2]) ELSE <<>>
             baseQuoteFormat == baseToken[1].name \o "-" \o quoteToken[1].name
             marketIndex == 10000 + market.index
         IN  IF ~market.tokens.isArray
             THEN \* market.tokens[0] of undefined
                  [s EXCEPT !.thrown = TRUE]
             ELSE forEachMarket(
                      IF baseToken # <<>> /\ quoteToken # <<>>
                      THEN [s EXCEPT !.assetToIndexMap =
                                          mapSet(@, baseQuoteFormat, marketIndex),
                                     !.exchangeToInternalNameMap =
                                          mapSet(@, market.name, baseQuoteFormat)]
                      ELSE s,
                      markets, tokens, i + 1)

\* a faulty try block that leaves the failure counter alone on success (told
\* apart by C19)
refreshBodyKeepingFailures(s, r) ==
    IF \/ r.failed
       \/ ~r.perpUniverse.isArray
       \/ ~r.spotTokens.isArray
       \/ ~r.spotUniverse.isArray
    THEN [s EXCEPT !.thrown = TRUE]
    ELSE LET s1 == [s EXCEPT !.assetToIndexMap = <<>>,
                             !.exchangeToInternalNameMap = <<>>,
                             !.spotTokensSet = {}]
             s2 == forEachAsset(s1, r.perpUniverse.items, 1)
             s3 == forEachToken(s2, r.spotTokens.items, 1)
         IN  forEachMarket(s3, r.spotUniverse.items, r.spotTokens.items, 1)

\* the try block of refreshAssetMaps once the two requests have settled
refreshBody(s, r) ==
    IF \/ r.failed
       \/ ~r.perpUniverse.isArray
       \/ ~r.spotTokens.isArray
       \/ ~r.spotUniverse.isArray
    THEN [s EXCEPT !.thrown = TRUE]
    ELSE LET s1 == [s EXCEPT !.assetToIndexMap = <<>>,
                             !.exchangeToInternalNameMap = <<>>,
                             !.spotTokensSet = {}]
             s2 == forEachAsset(s1, r.perpUniverse.items, 1)
             s3 == forEachToken(s2, r.spotTokens.items, 1)
             s4 == forEachMarket(s3, r.spotUniverse.items, r.spotTokens.items, 1)
         IN  IF s4.thrown THEN s4 ELSE [s4 EXCEPT !.consecutiveFailures = 0]

\* refreshAssetMaps from the moment its requests have settled with r; thrown
\* in the result says the promise it returned is rejected
refreshAssetMaps(s, r) ==
    LET s1 == refreshBody(s, r)
    IN  IF s1.thrown
        THEN checkMaxFailures([s1 EXCEPT !.consecutiveFailures = @ + 1])
        ELSE s1

\* a faulty initialize that starts the periodic refresh whether or not its
\* refresh succeeded (told apart by C21)
initializeResumesStartingTimer(s) ==
    IF s.thrown THEN startPeriodicRefresh(s)
    ELSE [startPeriodicRefresh(s) EXCEPT !.initialized = TRUE,
                                         !.selfDisabled = FALSE]

\* initialize() after `await this.refreshAssetMaps()`
initializeResumes(s) ==
    IF s.thrown THEN s
    ELSE [startPeriodicRefresh(s) EXCEPT !.initialized = TRUE,
                                         !.selfDisabled = FALSE]

\* the catch the interval callback attaches to refreshAssetMaps()
periodicCatch(s) ==
    IF ~s.thrown THEN s
    ELSE LET s1 == [s EXCEPT !.consecutiveFailures = @ + 1]
         IN  IF s1.consecutiveFailures >= maxConsecutiveFailures
             THEN [stopPeriodicRefresh(s1) EXCEPT
                       !.selfDisabled = s1.refreshInterval \/ @]
             ELSE s1

\* lookups: thrown if the instance is not initialized, else <<>> for
\* undefined or <<the value>>
getAssetIndex(s, assetSymbol) ==
    IF ~s.initialized THEN [thrown |-> TRUE, value |-> <<>>]
    ELSE [thrown |-> FALSE,
          value |-> IF mapHas(s.assetToIndexMap, assetSymbol)
                    THEN <<mapGet(s.assetToIndexMap, assetSymbol)>> ELSE <<>>]

\* a faulty getInternalName that does not call ensureInitialized (told apart
\* by C23)
getInternalNameUnchecked(s, exchangeName) ==
    [thrown |-> FALSE,
     value |-> IF mapHas(s.exchangeToInternalNameMap, exchangeName)
               THEN <<mapGet(s.exchangeToInternalNameMap, exchangeName)>>
               ELSE <<>>]

getInternalName(s, exchangeName) ==
    IF ~s.initialized THEN [thrown |-> TRUE, value |-> <<>>]
    ELSE [thrown |-> FALSE,
          value |-> IF mapHas(s.exchangeToInternalNameMap, exchangeName)
                    THEN <<mapGet(s.exchangeToInternalNameMap, exchangeName)>>
                    ELSE <<>>]

getExchangeName(s, internalName) ==
    LET m == s.exchangeToInternalNameMap
        hits == {i \in 1..Len(m) : m[i][2] = internalName}
    IN  IF ~s.initialized THEN [thrown |-> TRUE, value |-> <<>>]
        ELSE [thrown |-> FALSE,
              value |-> IF hits = {} THEN <<>>
                        ELSE <<m[CHOOSE i \in hits : \A j \in hits : i <= j][1]>>]

\* String.prototype.endsWith
endsWith(str, suffix) ==
    /\ Len(str) >= Len(suffix)
    /\ SubSeq(str, Len(str) - Len(suffix) + 1, Len(str)) = suffix

\* a faulty getAllAssets that takes only indices above 10000 for spot
\* assets (told apart by C26)
RECURSIVE allAssetsAbove(_, _, _)
allAssetsAbove(m, i, lists) ==
    IF i > Len(m) THEN lists
    ELSE LET asset == m[i][1]
             index == m[i][2]
         IN  allAssetsAbove(m, i + 1,
                 IF endsWith(asset, "-PERP")
                 THEN [lists EXCEPT !.perp = Append(@, asset)]
                 ELSE IF index > 10000
                 THEN [lists EXCEPT !.spot = Append(@, asset)]
                 ELSE lists)

\* getAllAssets: the keys of assetToIndexMap from the i-th entry on, sorted
\* into the lists perp and spot
RECURSIVE allAssets(_, _, _)
allAssets(m, i, lists) ==
    IF i > Len(m) THEN lists
    ELSE LET asset == m[i][1]
             index == m[i][2]
         IN  allAssets(m, i + 1,
                 IF endsWith(asset, "-PERP")
                 THEN [lists EXCEPT !.perp = Append(@, asset)]
                 ELSE IF index >= 10000
                 THEN [lists EXCEPT !.spot = Append(@, asset)]
                 ELSE lists)

getAllAssets(s) ==
    IF ~s.initialized THEN [thrown |-> TRUE, value |-> <<>>]
    ELSE [thrown |-> FALSE,
          value |-> <<allAssets(s.assetToIndexMap, 1,
                                [perp |-> <<>>, spot |-> <<>>])>>]

\* a faulty convertSymbol whose SPOT mode does not look at the token set
\* (told apart by C27)
convertSymbolIgnoringTokens(s, symbol, mode, symbolMode) ==
    LET m == s.exchangeToInternalNameMap
        hits == {i \in 1..Len(m) : m[i][2] = symbol}
        found == mode = "reverse" /\ hits # {}
        rSymbol == IF mode = "reverse" THEN symbol
                   ELSE IF mapHas(m, symbol) /\ mapGet(m, symbol) # ""
                   THEN mapGet(m, symbol)
                   ELSE symbol
    IN  IF ~s.initialized THEN [thrown |-> TRUE, value |-> <<>>]
        ELSE IF found
        THEN [thrown |-> FALSE,
              value |-> <<m[CHOOSE i \in hits : \A j \in hits : i <= j][1]>>]
        ELSE IF symbolMode = "PERP"
        THEN [thrown |-> FALSE,
              value |-> <<IF ~endsWith(rSymbol, "-PERP")
                          THEN symbol \o "-PERP" ELSE rSymbol>>]
        ELSE [thrown |-> FALSE, value |-> <<rSymbol>>]

\* convertSymbol(symbol, mode, symbolMode) for a string symbol
convertSymbol(s, symbol, mode, symbolMode) ==
    LET m == s.exchangeToInternalNameMap
        hits == {i \in 1..Len(m) : m[i][2] = symbol}
        found == mode = "reverse" /\ hits # {}
        rSymbol == IF mode = "reverse" THEN symbol
                   ELSE IF mapHas(m, symbol) /\ mapGet(m, symbol) # ""
                   THEN mapGet(m, symbol)
                   ELSE symbol
    IN  IF ~s.initialized THEN [thrown |-> TRUE, value |-> <<>>]
        ELSE IF found
        THEN [thrown |-> FALSE,
              value |-> <<m[CHOOSE i \in hits : \A j \in hits : i <= j][1]>>]
        ELSE IF symbolMode = "PERP"
        THEN [thrown |-> FALSE,
              value |-> <<IF ~endsWith(rSymbol, "-PERP")
                          THEN symbol \o "-PERP" ELSE rSymbol>>]
        ELSE IF symbolMode = "SPOT"
        THEN [thrown |-> FALSE,
              value |-> <<IF symbol \in s.spotTokensSet
                          THEN symbol ELSE rSymbol>>]
        ELSE [thrown |-> FALSE, value |-> <<rSymbol>>]

(***************************************************************************)
(* convertResponse.  A JavaScript value of a payload is a record of its    *)
(* type and its content: a string, a number (mantissa / 10^scale, with no  *)
(* trailing zero in the fraction), null, a boolean, an array (its items)   *)
(* or a plain object (its entries <<key, value>> in property order).       *)
(***************************************************************************)
Str(x) == [type |-> "string", string |-> x]
Num(m, k) == [type |-> "number", mantissa |-> m, scale |-> k]
Null == [type |-> "null"]
Bool(b) == [type |-> "boolean", boolean |-> b]
Array(items) == [type |-> "array", items |-> items]
Object(entries) == [type |-> "object", entries |-> entries]

charAt(str, i) == SubSeq(str, i, i)
DigitChars == <<"0", "1", "2", "3", "4", "5", "6", "7", "8", "9">>
isDigit(c) == \E d \in 1..10 : DigitChars[d] = c
digitsOnly(str, from, to) == \A i \in from..to : isDigit(charAt(str, i))

\* the number the digits str[from..to] write, 0 for none
RECURSIVE digitsValue(_, _, _)
digitsValue(str, from, to) ==
    IF from > to THEN 0
    ELSE 10 * digitsValue(str, from, to - 1)
         + (CHOOSE d \in 0..9 : DigitChars[d + 1] = charAt(str, to))

RECURSIVE pow10(_)
pow10(k) == IF k = 0 THEN 1 ELSE 10 * pow10(k - 1)

\* the number m / 10^k without trailing zeros in its fraction
RECURSIVE number(_, _)
number(m, k) ==
    IF k > 0 /\ m % 10 = 0 THEN number(m \div 10, k - 1) ELSE Num(m, k)

\* where the digits start: after the optional minus sign
afterSign(str) == IF Len(str) >= 1 /\ charAt(str, 1) = "-" THEN 2 ELSE 1

\* /^-?\d+$/.test(str)
matchesInteger(str) ==
    /\ afterSign(str) <= Len(str)
    /\ digitsOnly(str, afterSign(str), Len(str))

\* the positions of a dot that /^-?\d*\.\d+$/ can match
fractionDots(str) ==
    {dot \in afterSign(str)..(Len(str) - 1) :
        /\ charAt(str, dot) = "."
        /\ digitsOnly(str, afterSign(str), dot - 1)
        /\ digitsOnly(str, dot + 1, Len(str))}

\* /^-?\d*\.\d+$/.test(str)
matchesFloat(str) == fractionDots(str) # {}

\* parseInt(str, 10) of a string that matches the integer pattern
parseInt(str) ==
    LET n == digitsValue(str, afterSign(str), Len(str))
    IN  Num(IF afterSign(str) = 2 THEN -n ELSE n, 0)

\* parseFloat(str) of a string that matches the float pattern
parseFloat(str) ==
    LET dot == CHOOSE d \in fractionDots(str) : TRUE
        k == Len(str) - dot
        m == digitsValue(str, afterSign(str), dot - 1) * pow10(k)
             + digitsValue(str, dot + 1, Len(str))
    IN  number(IF afterSign(str) = 2 THEN -m ELSE m, k)

\* a faulty convertToNumber that takes every string with digits and at most
\* one dot for a number, "1." included (told apart by C28)
convertToNumberLoosely(value) ==
    IF value.type # "string" THEN value
    ELSE IF matchesInteger(value.string) THEN parseInt(value.string)
    ELSE IF matchesFloat(value.string) THEN parseFloat(value.string)
    ELSE IF /\ Len(value.string) >= 2
            /\ charAt(value.string, Len(value.string)) = "."
            /\ matchesInteger(SubSeq(value.string, 1, Len(value.string) - 1))
    THEN parseInt(SubSeq(value.string, 1, Len(value.string) - 1))
    ELSE value

convertToNumber(value) ==
    IF value.type # "string" THEN value
    ELSE IF matchesInteger(value.string) THEN parseInt(value.string)
    ELSE IF matchesFloat(value.string) THEN parseFloat(value.string)
    ELSE value

\* `await this.convertSymbol(value as string, '', symbolMode)` for the value
\* of a symbol field, which need not be a string
convertSymbolField(s, value, symbolMode) ==
    IF value.type = "string"
    THEN LET res == convertSymbol(s, value.string, "", symbolMode)
         IN  [thrown |-> res.thrown,
              value |-> IF res.thrown THEN <<>> ELSE <<Str(res.value[1])>>]
    ELSE IF ~s.initialized THEN [thrown |-> TRUE, value |-> <<>>]
    ELSE IF symbolMode = "PERP"
    THEN \* rSymbol.endsWith is not a function
         [thrown |-> TRUE, value |-> <<>>]
    ELSE [thrown |-> FALSE, value |-> <<value>>]

\* value === 'A' ? 'sell' : value === 'B' ? 'buy' : value
convertSide(value) ==
    IF value = Str("A") THEN Str("sell")
    ELSE IF value = Str("B") THEN Str("buy")
    ELSE value

RECURSIVE convertSymbolsInObject(_, _, _, _)
RECURSIVE convertItems(_, _, _, _, _, _)
RECURSIVE convertEntries(_, _, _, _, _, _)

\* obj.map(item => this.convertSymbolsInObject(item, ...)) under Promise.all,
\* from the i-th item on; done holds the items converted so far
convertItems(s, items, i, symbolsFields, symbolMode, done) ==
    IF i > Len(items) THEN [thrown |-> FALSE, value |-> <<Array(done)>>]
    ELSE LET res == convertSymbolsInObject(s, items[i], symbolsFields, symbolMode)
         IN  IF res.thrown THEN [thrown |-> TRUE, value |-> <<>>]
             ELSE convertItems(s, items, i + 1, symbolsFields, symbolMode,
                               Append(done, res.value[1]))

\* for (const [key, value] of Object.entries(obj)), from the i-th entry on;
\* convertedObj holds the entries converted so far
convertEntries(s, entries, i, symbolsFields, symbolMode, convertedObj) ==
    IF i > Len(entries) THEN [thrown |-> FALSE, value |-> <<Object(convertedObj)>>]
    ELSE LET key == entries[i][1]
             value == entries[i][2]
             res == IF key \in symbolsFields
                    THEN convertSymbolField(s, value, symbolMode)
                    ELSE IF key = "side"
                    THEN [thrown |-> FALSE, value |-> <<convertSide(value)>>]
                    ELSE convertSymbolsInObject(s, value, symbolsFields, symbolMode)
         IN  IF res.thrown THEN [thrown |-> TRUE, value |-> <<>>]
             ELSE convertEntries(s, entries, i + 1, symbolsFields, symbolMode,
                                 Append(convertedObj, <<key, res.value[1]>>))

convertSymbolsInObject(s, obj, symbolsFields, symbolMode) ==
    IF ~s.initialized THEN [thrown |-> TRUE, value |-> <<>>]
    ELSE IF obj.type = "array"
    THEN convertItems(s, obj.items, 1, symbolsFields, symbolMode, <<>>)
    ELSE IF obj.type = "object"
    THEN convertEntries(s, obj.entries, 1, symbolsFields, symbolMode, <<>>)
    ELSE [thrown |-> FALSE, value |-> <<convertToNumber(obj)>>]

convertResponse(s, payload, symbolsFields, symbolMode) ==
    convertSymbolsInObject(s, payload, symbolsFields, symbolMode)

InFlightRefreshes == pending["initialize"] + pending["timer"] + pending["direct"]

Pending == [kind |-> "pending", id |-> 0]
Settled(s) == [kind |-> IF s.thrown THEN "rejected" ELSE "resolved", id |-> 0]

\* the refreshes in flight and the history, as a task that consumed no
\* response finds them
Refreshes == [pending |-> pending, lastGood |-> lastGood,
              periodicFails |-> periodicFails, cleanRun |-> cleanRun,
              response |-> "none"]

\* the call or callback leaves the instance as s, and the refreshes in
\* flight and the history as h
ConvBecomes(s, h) ==
    /\ symbolConversion' =
           [assetToIndexMap |-> s.assetToIndexMap,
            exchangeToInternalNameMap |-> s.exchangeToInternalNameMap,
            spotTokensSet |-> s.spotTokensSet,
            initialized |-> s.initialized,
            consecutiveFailures |-> s.consecutiveFailures,
            refreshInterval |-> s.refreshInterval,
            pending |-> h.pending,
            lastGood |-> h.lastGood,
            periodicFails |-> h.periodicFails,
            cleanRun |-> h.cleanRun,
            selfDisabled |-> s.selfDisabled,
            response |-> h.response]
    /\ UNCHANGED <<fields, emitted, scheduled, sent, history, exchange, client,
                   registry, flights>>

\* the application calls initialize(): it returns at once if initialized,
\* else it runs up to the await of refreshAssetMaps's two requests
Initialize ==
    /\ ~initialized => InFlightRefreshes < MaxInFlight
    /\ ConvBecomes(Conv, IF initialized THEN Refreshes
                         ELSE [Refreshes EXCEPT !.pending["initialize"] = @ + 1])
    /\ ret' = IF initialized THEN Immediate ELSE Pending
    /\ task' = "initialize"

\* the interval of startPeriodicRefresh fires: refreshAssetMaps() is called
RefreshTimer ==
    /\ refreshInterval
    /\ InFlightRefreshes < MaxInFlight
    /\ ConvBecomes(Conv, [Refreshes EXCEPT !.pending["timer"] = @ + 1])
    /\ ret' = NoReturn
    /\ task' = "refreshTimer"

\* refreshAssetMaps() is called directly
Refresh ==
    /\ InFlightRefreshes < MaxInFlight
    /\ ConvBecomes(Conv, [Refreshes EXCEPT !.pending["direct"] = @ + 1])
    /\ ret' = Pending
    /\ task' = "refresh"

\* the application calls stopPeriodicRefresh()
StopPeriodicRefresh ==
    /\ ConvBecomes(stopPeriodicRefresh(Conv),
                   [Refreshes EXCEPT !.cleanRun = FALSE])
    /\ ret' = NoReturn
    /\ task' = "stop"

\* the two requests of a refresh started by origin settle with the response
\* named name: refreshAssetMaps resumes, and then its caller
Settle(origin, name) ==
    /\ pending[origin] > 0
    /\ LET s1 == refreshAssetMaps(Conv, Response(name))
           s2 == CASE origin = "initialize" -> initializeResumes(s1)
                   [] origin = "timer" -> periodicCatch(s1)
                   [] origin = "direct" -> s1
       IN  /\ s1.thrown => consecutiveFailures + 2 <= FailureCap
           /\ ConvBecomes(s2,
                  [pending |-> [pending EXCEPT ![origin] = @ - 1],
                   lastGood |-> IF s1.thrown THEN lastGood
                                ELSE <<s1.assetToIndexMap,
                                       s1.exchangeToInternalNameMap,
                                       s1.spotTokensSet>>,
                   periodicFails |-> IF ~s1.thrown THEN 0
                                     ELSE IF origin = "timer"
                                          THEN periodicFails + 1
                                     ELSE periodicFails,
                   cleanRun |-> IF origin = "initialize" /\ ~s1.thrown THEN TRUE
                                ELSE IF origin # "timer" /\ s1.thrown THEN FALSE
                                ELSE cleanRun,
                   response |-> name])
           /\ ret' = Settled(s1)
    /\ task' = origin \o " settled"

\* what ConvBecomes does, for a call that changes the refreshes in flight too
OverlapBecomes(s, h, f) ==
    /\ symbolConversion' =
           [assetToIndexMap |-> s.assetToIndexMap,
            exchangeToInternalNameMap |-> s.exchangeToInternalNameMap,
            spotTokensSet |-> s.spotTokensSet,
            initialized |-> s.initialized,
            consecutiveFailures |-> s.consecutiveFailures,
            refreshInterval |-> s.refreshInterval,
            pending |-> h.pending,
            lastGood |-> h.lastGood,
            periodicFails |-> h.periodicFails,
            cleanRun |-> h.cleanRun,
            selfDisabled |-> s.selfDisabled,
            response |-> h.response]
    /\ flights' = f
    /\ UNCHANGED <<fields, emitted, scheduled, sent, history, exchange, client,
                   registry>>

\* the metadata of the server changes
MetadataChanges ==
    /\ flights.server = "Gen1"
    /\ flights' = [flights EXCEPT !.server = "Gen2"]
    /\ task' = "metadata"
    /\ ret' = NoReturn
    /\ UNCHANGED <<fields, emitted, scheduled, sent, history, symbolConversion,
                   exchange, client, registry>>

\* refreshAssetMaps() is called by initialize() on an instance that is not
\* initialized, or by the interval callback: it sends its two requests,
\* which the server answers with the metadata it has
RefreshStarts(origin) ==
    /\ origin = "initialize" => ~initialized
    /\ origin = "timer" => refreshInterval
    /\ InFlightRefreshes < MaxInFlight
    /\ LET n == flights.started + 1
       IN  OverlapBecomes(Conv,
               [Refreshes EXCEPT !.pending[origin] = @ + 1],
               [flights EXCEPT !.started = n,
                               !.inFlight = @ \cup {[origin |-> origin,
                                                    started |-> n,
                                                    name |-> flights.server]}])
    /\ ret' = IF origin = "initialize" THEN Pending ELSE NoReturn
    /\ task' = IF origin = "initialize" THEN "initialize" ELSE "refreshTimer"

\* the requests of the refresh f settle, in any order of the refreshes in
\* flight: refreshAssetMaps resumes, and then its caller
RefreshSettles(f) ==
    /\ f \in flights.inFlight
    /\ LET s1 == refreshAssetMaps(Conv, Response(f.name))
           s2 == IF f.origin = "initialize" THEN initializeResumes(s1)
                                            ELSE periodicCatch(s1)
       IN  /\ OverlapBecomes(s2,
                  [pending |-> [pending EXCEPT ![f.origin] = @ - 1],
                   lastGood |-> <<s1.assetToIndexMap,
                                  s1.exchangeToInternalNameMap,
                                  s1.spotTokensSet>>,
                   periodicFails |-> 0,
                   cleanRun |-> IF f.origin = "initialize" THEN TRUE
                                                           ELSE cleanRun,
                   response |-> f.name],
                  [flights EXCEPT !.inFlight = @ \ {f}])
           /\ ret' = [kind |-> "resolved", id |-> 0, started |-> f.started]
    /\ task' = f.origin \o " settled"

\* the refreshes that can be in flight
Flights ==
    [origin : {"initialize", "timer"}, started : 1..MaxStarted,
     name : {"Gen1", "Gen2"}]

NextOverlap ==
    \/ MetadataChanges
    \/ /\ flights.started < MaxStarted
       /\ \E origin \in {"initialize", "timer"} : RefreshStarts(origin)
    \/ \E f \in Flights : RefreshSettles(f)

OverlapSpec == Init /\ [][NextOverlap]_vars

NextConv ==
    \/ Initialize
    \/ RefreshTimer
    \/ Refresh
    \/ StopPeriodicRefresh
    \/ \E origin \in Origins : \E name \in ResponseNames : Settle(origin, name)

ConvSpec == Init /\ [][NextConv]_vars

(***************************************************************************)
(* Lookups and conversions on the instance, next to initialize() and the   *)
(* periodic refresh.  A lookup returns a promise: ret says how it settled, *)
(* for which arguments and with which value (<<>> for undefined).          *)
(***************************************************************************)
Outcome(res, args) ==
    [kind |-> IF res.thrown THEN "rejected" ELSE "resolved", id |-> 0,
     args |-> args, value |-> res.value]

\* the symbols the application asks about
LookupSymbols ==
    {"BTC", "PURR", "USDC", "PURR/USDC", "@1", "@2", "BTC-PERP", "PURR-PERP",
     "PURR-USDC", "PURR-USDT", "NOPE"}
Modes == {"", "reverse"}
SymbolModes == {"", "PERP", "SPOT"}

\* the metadata the exchange answers with, or a failed request
LookupResponses == {"Gen1", "TwoQuotes", "UnknownToken", "FetchError"}

\* the tasks that are lookups or conversions
Lookups == {"getAssetIndex", "getInternalName", "getExchangeName",
            "getAllAssets", "convertSymbol", "convertResponse"}

\* A lookup changes nothing but the record of what it returned, so a lookup
\* made right after another one reaches no state that it does not reach
\* when it is made in the other's place: only those are followed.
FirstLookup == task \notin Lookups

GetAssetIndex(assetSymbol) ==
    /\ ConvBecomes(Conv, Refreshes)
    /\ ret' = Outcome(getAssetIndex(Conv, assetSymbol), <<assetSymbol>>)
    /\ task' = "getAssetIndex"

GetInternalName(exchangeName) ==
    /\ ConvBecomes(Conv, Refreshes)
    /\ ret' = Outcome(getInternalName(Conv, exchangeName), <<exchangeName>>)
    /\ task' = "getInternalName"

GetExchangeName(internalName) ==
    /\ ConvBecomes(Conv, Refreshes)
    /\ ret' = Outcome(getExchangeName(Conv, internalName), <<internalName>>)
    /\ task' = "getExchangeName"

GetAllAssets ==
    /\ ConvBecomes(Conv, Refreshes)
    /\ ret' = Outcome(getAllAssets(Conv), <<>>)
    /\ task' = "getAllAssets"

ConvertSymbol(symbol, mode, symbolMode) ==
    /\ ConvBecomes(Conv, Refreshes)
    /\ ret' = Outcome(convertSymbol(Conv, symbol, mode, symbolMode),
                      <<symbol, mode, symbolMode>>)
    /\ task' = "convertSymbol"

\* the scalars, and the arrays and objects of a payload
Chars == {"-", ".", "0", "1", "a"}

RECURSIVE Strings(_)
Strings(n) ==
    IF n = 0 THEN {""}
    ELSE LET shorter == Strings(n - 1)
         IN  shorter \cup {x \o c : x \in {y \in shorter : Len(y) = n - 1},
                                    c \in Chars}

Scalars ==
    {Str(x) : x \in Strings(MaxStrLen) \cup {"A", "B", "PURR", "BTC", "BTC-PERP"}}
        \cup {Num(7, 0), Null, Bool(TRUE)}
Leaves == {Str("10"), Str("a"), Str("A"), Str("PURR"), Num(7, 0), Null}
PayloadKeys == {"coin", "side", "px"}
KeyLists ==
    {ks \in UNION {[1..n -> PayloadKeys] : n \in 0..MaxWidth} :
        \A i, j \in 1..Len(ks) : i # j => ks[i] # ks[j]}
Flat ==
    {Array(items) : items \in UNION {[1..n -> Leaves] : n \in 0..MaxWidth}}
        \cup UNION {{Object([i \in 1..Len(ks) |-> <<ks[i], vs[i]>>]) :
                        vs \in [1..Len(ks) -> Leaves]} : ks \in KeyLists}
Wrapped ==
    {Array(<<v>>) : v \in Scalars}
        \cup {Object(<<<<k, v>>>>) : k \in PayloadKeys, v \in Scalars}
Nested ==
    {Array(<<f>>) : f \in Flat}
        \cup {Object(<<<<k, f>>>>) : k \in PayloadKeys, f \in Flat}
Payloads == Scalars \cup Wrapped \cup Flat \cup Nested
SmallPayloads == {Str("10"), Object(<<<<"coin", Str("BTC")>>, <<"px", Str("1.0")>>>>)}

\* the default of the parameter symbolsFields
DefaultFields == {"coin", "symbol"}

ConvertResponse(payload, symbolsFields, symbolMode) ==
    /\ ConvBecomes(Conv, Refreshes)
    /\ ret' = Outcome(convertResponse(Conv, payload, symbolsFields, symbolMode),
                      <<payload, symbolsFields, symbolMode>>)
    /\ task' = "convertResponse"

NextLookup ==
    \/ Initialize
    \/ RefreshTimer
    \/ \E origin \in {"initialize", "timer"} :
           \E name \in LookupResponses : Settle(origin, name)
    \/ /\ FirstLookup
       /\ \/ \E symbol \in LookupSymbols :
                \/ GetAssetIndex(symbol)
                \/ GetInternalName(symbol)
                \/ GetExchangeName(symbol)
                \/ \E mode \in Modes : \E symbolMode \in SymbolModes :
                       ConvertSymbol(symbol, mode, symbolMode)
          \/ GetAllAssets
          \/ \E payload \in SmallPayloads : \E symbolMode \in SymbolModes :
                 ConvertResponse(payload, DefaultFields, symbolMode)

LookupSpec == Init /\ [][NextLookup]_vars

\* convertResponse on an instance that initialize() is called on
NextNormalize ==
    \/ Initialize
    \/ Settle("initialize", "TwoQuotes")
    \/ /\ FirstLookup
       /\ \E payload \in Payloads : \E symbolMode \in SymbolModes :
              ConvertResponse(payload, DefaultFields, symbolMode)

NormalizeSpec == Init /\ [][NextNormalize]_vars

(***************************************************************************)
(* ExchangeAPI: the operations that need an asset index.  An operation is  *)
(* modelled from the point where `await this.parent.ensureInitialized()`   *)
(* has returned, on a client whose initialize() has succeeded.  An action  *)
(* that is signed or sent is the record of the operation that built it and *)
(* of the asset indices in it, <<index>> each, or <<>> for undefined.      *)
(***************************************************************************)
MaxBatch == 2

\* a faulty getAssetIndex that returns undefined for an unknown symbol where
\* it should throw (told apart by C30)
exchange_getAssetIndexForwarding(e, s, symbol) ==
    LET index == getAssetIndex(s, symbol)
    IN  IF index.thrown THEN [thrown |-> TRUE, value |-> <<>>, exchange |-> e]
        ELSE [thrown |-> FALSE, value |-> index.value,
              exchange |-> IF e._i = 0
                           THEN [e EXCEPT !._i = 1, !.referrer = TRUE]
                           ELSE e]

\* ExchangeAPI.getAssetIndex: throws 'Unknown asset' for undefined; the
\* first index it finds sets _i and schedules setReferrer() with setTimeout
exchange_getAssetIndex(e, s, symbol) ==
    LET index == getAssetIndex(s, symbol)
    IN  IF index.thrown \/ index.value = <<>>
        THEN [thrown |-> TRUE, value |-> <<>>, exchange |-> e]
        ELSE [thrown |-> FALSE, value |-> index.value,
              exchange |-> IF e._i = 0
                           THEN [e EXCEPT !._i = 1, !.referrer = TRUE]
                           ELSE e]

\* Promise.all(coins.map(coin => this.getAssetIndex(coin))) from the i-th
\* coin on: every callback runs, and one that throws rejects the whole
RECURSIVE getAssetIndices(_, _, _, _, _, _)
getAssetIndices(e, s, coins, i, indices, thrown) ==
    IF i > Len(coins) THEN [thrown |-> thrown, value |-> indices, exchange |-> e]
    ELSE LET res == exchange_getAssetIndex(e, s, coins[i])
         IN  getAssetIndices(res.exchange, s, coins, i + 1,
                             IF res.thrown THEN indices
                                           ELSE Append(indices, res.value),
                             thrown \/ res.thrown)

\* the body of an operation: resolve the coins, build the action, sign it
\* and send the request; an error is thrown on
operation(e, s, name, coins) ==
    LET res == getAssetIndices(e, s, coins, 1, <<>>, FALSE)
        action == [operation |-> name, assets |-> res.value]
    IN  [thrown |-> res.thrown,
         exchange |-> IF res.thrown
                      THEN [res.exchange EXCEPT !.signed = <<>>,
                                                !.requests = <<>>]
                      ELSE [res.exchange EXCEPT !.signed = <<action>>,
                                                !.requests = <<action>>,
                                                !.failedOnly = FALSE]]

\* the symbols the application names in its operations
Coins == {"BTC-PERP", "PURR-USDT", "NOPE"}
Batches == UNION {[1..n -> Coins] : n \in 1..MaxBatch}

\* the application calls an operation: it runs up to the await of the
\* request's response, or to its throw
Operation(name, coins) ==
    /\ initialized
    /\ LET res == operation(exchange, Conv, name, coins)
       IN  /\ exchange' = res.exchange
           /\ ret' = [kind |-> IF res.thrown THEN "rejected" ELSE "pending",
                      id |-> 0, args |-> <<name, coins>>]
    /\ task' = name
    /\ UNCHANGED <<fields, emitted, scheduled, sent, history, symbolConversion,
                   client, registry, flights>>

placeOrder(orders) == Operation("placeOrder", orders)
cancelOrder(cancelRequests) == Operation("cancelOrder", cancelRequests)
cancelOrderByCloid(symbol) == Operation("cancelOrderByCloid", <<symbol>>)
modifyOrder(coin) == Operation("modifyOrder", <<coin>>)
batchModifyOrders(modifies) == Operation("batchModifyOrders", modifies)
updateLeverage(symbol) == Operation("updateLeverage", <<symbol>>)
updateIsolatedMargin(symbol) == Operation("updateIsolatedMargin", <<symbol>>)
placeTwapOrder(coin) == Operation("placeTwapOrder", <<coin>>)
cancelTwapOrder(coin) == Operation("cancelTwapOrder", <<coin>>)

\* the timeout of getAssetIndex fires: setReferrer() signs its action and
\* sends the request
setReferrer ==
    /\ exchange.referrer
    /\ LET action == [operation |-> "setReferrer", assets |-> <<>>]
       IN  exchange' = [exchange EXCEPT !.referrer = FALSE,
                                        !.signed = <<action>>,
                                        !.requests = <<action>>]
    /\ ret' = Pending
    /\ task' = "setReferrer"
    /\ UNCHANGED <<fields, emitted, scheduled, sent, history, symbolConversion,
                   client, registry, flights>>

(***************************************************************************)
(* ExchangeAPI.generateUniqueNonce.  The nonce is not part of the record   *)
(* of a signed action above; the method is called here on its own, with    *)
(* the reading of Date.now() as its input.                                 *)
(***************************************************************************)
MaxClock == 4
MaxNonces == 4

\* a faulty generateUniqueNonce that returns the clock's reading as it is
\* (told apart by C31)
generateUniqueNonceByClock(e, timestamp) ==
    [nonce |-> timestamp,
     exchange |-> IF timestamp <= e.lastNonceTimestamp THEN e
                  ELSE [e EXCEPT !.lastNonceTimestamp = timestamp]]

generateUniqueNonce(e, timestamp) ==
    IF timestamp <= e.lastNonceTimestamp
    THEN [nonce |-> e.lastNonceTimestamp + 1,
          exchange |-> [e EXCEPT !.lastNonceTimestamp = @ + 1]]
    ELSE [nonce |-> timestamp,
          exchange |-> [e EXCEPT !.lastNonceTimestamp = timestamp]]

\* the readings of Date.now()
Clock == 0..MaxClock

\* a call of generateUniqueNonce() while Date.now() reads timestamp
GenerateUniqueNonce(timestamp) ==
    /\ Len(exchange.nonces) < MaxNonces
    /\ LET res == generateUniqueNonce(exchange, timestamp)
       IN  /\ exchange' = [res.exchange EXCEPT !.nonces = Append(@, res.nonce)]
           /\ ret' = [kind |-> "returned", id |-> 0, args |-> <<timestamp>>,
                      value |-> <<res.nonce>>]
    /\ task' = "generateUniqueNonce"
    /\ UNCHANGED <<fields, emitted, scheduled, sent, history, symbolConversion,
                   client, registry, flights>>

NextNonce == \E timestamp \in Clock : GenerateUniqueNonce(timestamp)

NonceSpec == Init /\ [][NextNonce]_vars

NextExchange ==
    \/ Initialize
    \/ \E name \in {"TwoQuotes", "UnknownToken"} : Settle("initialize", name)
    \/ \E batch \in Batches :
           \/ placeOrder(batch)
           \/ cancelOrder(batch)
           \/ batchModifyOrders(batch)
    \/ \E coin \in Coins :
           \/ cancelOrderByCloid(coin)
           \/ modifyOrder(coin)
           \/ updateLeverage(coin)
           \/ updateIsolatedMargin(coin)
           \/ placeTwapOrder(coin)
           \/ cancelTwapOrder(coin)
    \/ setReferrer

ExchangeSpec == Init /\ [][NextExchange]_vars

(***************************************************************************)
(* Hyperliquid: initialize(), ensureInitialized(), connect() and           *)
(* isAuthenticated().  The client is constructed with the default          *)
(* enableWs = true, which the constructor turns to false when the          *)
(* environment supports no WebSocket.  An operator takes the client c, the *)
(* SymbolConversion instance s and its refreshes h, and gives them back    *)
(* with how the call's promise stands: kind.                               *)
(***************************************************************************)
MaxCalls == 3

\* the function behind _initializing goes on after
\* `await this.symbolConversion.initialize()`, which threw or did not
initializingResumes(c, thrown) ==
    IF thrown
    THEN \* catch: throw error; finally: this._initializing = null
         [c EXCEPT !._initializing = FALSE, !.awaits = "none", !.calls = 0]
    ELSE IF c.enableWs
    THEN \* await this.connect(): connect() awaits ensureInitialized(), which
         \* awaits initialize(), which returns this._initializing
         [c EXCEPT !.awaits = "connect", !.connectAwaits = "_initializing"]
    ELSE [c EXCEPT !._initialized = TRUE, !._initializing = FALSE,
                   !.awaits = "none", !.calls = 0]

\* a faulty initialize() without the test of this._initializing (told apart
\* by C35)
initializeAgain(c, s, h) ==
    IF c._initialized
    THEN [client |-> c, conv |-> s, refreshes |-> h, kind |-> "resolved"]
    ELSE IF s.initialized
    THEN LET resumed == initializingResumes(
                            [c EXCEPT !._initializing = TRUE,
                                      !.calls = @ + 1], FALSE)
         IN  [client |-> resumed, conv |-> s, refreshes |-> h,
              kind |-> IF resumed._initialized THEN "resolved" ELSE "pending"]
    ELSE [client |-> [c EXCEPT !._initializing = TRUE,
                               !.awaits = "symbolConversion.initialize",
                               !.calls = @ + 1],
          conv |-> s,
          refreshes |-> [h EXCEPT !.pending["initialize"] = @ + 1],
          kind |-> "pending"]

\* Hyperliquid.initialize
initialize(c, s, h) ==
    IF c._initialized
    THEN [client |-> c, conv |-> s, refreshes |-> h, kind |-> "resolved"]
    ELSE IF c._initializing
    THEN [client |-> [c EXCEPT !.calls = @ + 1], conv |-> s, refreshes |-> h,
          kind |-> "pending"]
    ELSE IF s.initialized
    THEN \* symbolConversion.initialize() returns at once
         LET resumed == initializingResumes(
                            [c EXCEPT !._initializing = TRUE,
                                      !.calls = @ + 1], FALSE)
         IN  [client |-> resumed, conv |-> s, refreshes |-> h,
              kind |-> IF resumed._initialized THEN "resolved" ELSE "pending"]
    ELSE \* symbolConversion.initialize() awaits refreshAssetMaps()
         [client |-> [c EXCEPT !._initializing = TRUE,
                               !.awaits = "symbolConversion.initialize",
                               !.calls = @ + 1],
          conv |-> s,
          refreshes |-> [h EXCEPT !.pending["initialize"] = @ + 1],
          kind |-> "pending"]

\* Hyperliquid.ensureInitialized
ensureInitialized(c, s, h) ==
    IF ~c._initialized THEN initialize(c, s, h)
    ELSE [client |-> c, conv |-> s, refreshes |-> h, kind |-> "resolved"]

\* Hyperliquid.connect, called by the application: after ensureInitialized()
\* it awaits ws.connect() if enableWs, and swallows its error
Hyperliquid_connect(c, s, h) ==
    LET res == ensureInitialized(c, s, h)
    IN  IF res.kind = "resolved" /\ res.client.enableWs
        THEN [res EXCEPT !.kind = "pending",
                         !.client.connectAwaits = "ws.connect"]
        ELSE res

\* Hyperliquid.isAuthenticated: ensureInitialized() is called and not awaited
isAuthenticated(c, s, h) ==
    [ensureInitialized(c, s, h) EXCEPT !.kind = "returned"]

Methods == {"initialize", "ensureInitialized", "connect", "isAuthenticated"}

\* the application calls a method of the client
Call(method) ==
    /\ client.calls < MaxCalls
    /\ LET res == CASE method = "initialize" -> initialize(client, Conv, Refreshes)
                    [] method = "ensureInitialized" ->
                           ensureInitialized(client, Conv, Refreshes)
                    [] method = "connect" ->
                           Hyperliquid_connect(client, Conv, Refreshes)
                    [] method = "isAuthenticated" ->
                           isAuthenticated(client, Conv, Refreshes)
       IN  /\ client' = res.client
           /\ symbolConversion' =
                  [symbolConversion EXCEPT !.pending = res.refreshes.pending,
                                           !.response = "none"]
           /\ ret' = [kind |-> res.kind, id |-> 0]
    /\ task' = "client." \o method
    /\ UNCHANGED <<fields, emitted, scheduled, sent, history, exchange, registry,
                   flights>>

\* the requests of the refresh that symbolConversion.initialize() awaits
\* settle with the response named name: refreshAssetMaps resumes, then
\* symbolConversion.initialize(), then the function behind _initializing
SymbolCacheSettles(name) ==
    /\ client.awaits = "symbolConversion.initialize"
    /\ pending["initialize"] > 0
    /\ LET s1 == refreshAssetMaps(Conv, Response(name))
           s2 == initializeResumes(s1)
       IN  /\ s1.thrown => consecutiveFailures + 2 <= FailureCap
           /\ symbolConversion' =
                  [assetToIndexMap |-> s2.assetToIndexMap,
                   exchangeToInternalNameMap |-> s2.exchangeToInternalNameMap,
                   spotTokensSet |-> s2.spotTokensSet,
                   initialized |-> s2.initialized,
                   consecutiveFailures |-> s2.consecutiveFailures,
                   refreshInterval |-> s2.refreshInterval,
                   pending |-> [pending EXCEPT !["initialize"] = @ - 1],
                   lastGood |-> IF s1.thrown THEN lastGood
                                ELSE <<s1.assetToIndexMap,
                                       s1.exchangeToInternalNameMap,
                                       s1.spotTokensSet>>,
                   periodicFails |-> IF s1.thrown THEN periodicFails ELSE 0,
                   cleanRun |-> ~s1.thrown,
                   selfDisabled |-> s2.selfDisabled,
                   response |-> name]
           /\ client' = initializingResumes(client, s1.thrown)
           /\ ret' = IF s1.thrown THEN [kind |-> "rejected", id |-> 0]
                     ELSE IF client.enableWs THEN Pending
                     ELSE Immediate
    /\ task' = "client.initialize settled"
    /\ UNCHANGED <<fields, emitted, scheduled, sent, history, exchange, registry,
                   flights>>

NextClient ==
    \/ \E method \in Methods : Call(method)
    \/ \E name \in {"Gen1", "FetchError"} : SymbolCacheSettles(name)

ClientSpec == Init /\ [][NextClient]_vars

\* whatever is awaited and can settle does settle
ClientLiveSpec ==
    ClientSpec /\ WF_vars(\E name \in {"Gen1", "FetchError"} : SymbolCacheSettles(name))

(***************************************************************************)
(* Subscription Registry, as spec.md 4.2 describes it, on top of the       *)
(* manager's sendMessage and subscription counter.  The calls are made     *)
(* while the connection is open.                                           *)
(***************************************************************************)
MaxListeners == 2

\* subscribe(key, listener): the first listener of a key reserves a unit of
\* capacity and sends the subscribe wire message
subscribe(s, reg, key) ==
    IF reg.listeners[key] > 0
    THEN [s |-> s, registry |-> [reg EXCEPT !.listeners[key] = @ + 1]]
    ELSE LET r == incrementSubscriptionCount(s)
         IN  IF r.ret = Returned(FALSE)
             THEN \* SubscriptionLimitExceeded
                  [s |-> [s EXCEPT !.thrown = TRUE], registry |-> reg]
             ELSE [s |-> sendMessage(r.s, <<"subscribe", key>>),
                   registry |-> [reg EXCEPT !.listeners[key] = 1,
                                            !.outstanding[key] = @ + 1]]

\* unsubscribe(handle) of a listener of key: the last listener of a key
\* sends the unsubscribe wire message and releases the unit of capacity
unsubscribe(s, reg, key) ==
    IF reg.listeners[key] > 1
    THEN [s |-> s, registry |-> [reg EXCEPT !.listeners[key] = @ - 1]]
    ELSE [s |-> decrementSubscriptionCount(
                    sendMessage(s, <<"unsubscribe", key>>)),
          registry |-> [reg EXCEPT !.listeners[key] = 0,
                                   !.outstanding[key] = @ - 1]]

\* the call leaves the manager as s and the registry as reg
RegistryBecomes(s, reg, name, key) ==
    /\ registry' = reg
    /\ subscriptionCount' = s.subscriptionCount
    /\ sent' = s.sent
    /\ ret' = [kind |-> IF s.thrown THEN "thrown" ELSE "none", id |-> 0,
               args |-> <<key>>]
    /\ task' = name
    /\ UNCHANGED <<connection, emitted, scheduled, history, symbolConversion,
                   exchange, client, flights>>

\* the application subscribes a listener to key
Subscribe(key) ==
    /\ isConnected(This)
    /\ registry.listeners[key] < MaxListeners
    /\ LET r == subscribe([This EXCEPT !.sent = <<>>], registry, key)
       IN  RegistryBecomes(r.s, r.registry, "subscribe", key)

\* the application unsubscribes a listener of key
Unsubscribe(key) ==
    /\ isConnected(This)
    /\ registry.listeners[key] > 0
    /\ LET r == unsubscribe([This EXCEPT !.sent = <<>>], registry, key)
       IN  RegistryBecomes(r.s, r.registry, "unsubscribe", key)

NextRegistry ==
    \/ UserConnect
    \/ \E t \in Ids : TransportOpen(t)
    \/ \E key \in Keys : Subscribe(key) \/ Unsubscribe(key)

RegistrySpec == Init /\ [][NextRegistry]_vars

(***************************************************************************)
(* Claims.                                                                 *)
(***************************************************************************)
\* the transport held by the manager is being connected: it was created and
\* has neither opened nor failed
InFlight == ws # 0 /\ readyState[ws] = "CONNECTING"

\* the transport held by the manager is open
TransportIsOpen == ws # 0 /\ readyState[ws] = "OPEN"

\* C1: a connect() made while a connection attempt is in flight returns the
\* pending promise of that attempt and constructs no transport; a connect()
\* made while the connection is open resolves immediately and constructs no
\* transport.
C1_ConnectIdempotent ==
    /\ InFlight => /\ connect(This).ret = PromiseRef(ws)
                   /\ promiseState[ws] = "pending"
                   /\ ~Constructs(This)
    /\ TransportIsOpen => /\ connect(This).ret = Immediate
                          /\ ~Constructs(This)

\* C2: after the application called close(), and until it calls connect()
\* again, no reconnect timer is scheduled or pending, no connection attempt
\* is under way, no 'reconnect' event is emitted, and the manager holds no
\* heartbeat timer.
C2_NoReconnectAfterClose ==
    closedByUser =>
        /\ timers = <<>>
        /\ scheduled = <<>>
        /\ \A t \in Ids : readyState[t] # "CONNECTING"
        /\ emitted["reconnect"] = 0
        /\ pingInterval = 0

\* C3: from an open connection whose transport closes, with no call of the
\* application and no heartbeat timeout since it opened: at most
\* maxReconnectAttempts reconnect timers fire, the event
\* 'maxReconnectAttemptsReached' is emitted at most once, and it is emitted
\* only when all maxReconnectAttempts attempts were made and none is pending.
C3_ExactlyNAttempts ==
    sinceOpen =>
        /\ firedRun <= maxReconnectAttempts
        /\ maxReachedRun <= 1
        /\ maxReachedRun = 1 =>
              /\ firedRun = maxReconnectAttempts
              /\ timers = <<>>

\* the delays the claim lists for the attempts 1..5, and the cap after them
BackoffTable == <<1000, 2000, 4000, 8000, 16000>>
ClaimedDelay(k) == IF k <= Len(BackoffTable) THEN BackoffTable[k] ELSE 30000

\* C4: the k-th reconnection attempt is scheduled with the delay
\* min(1000 * 2^(k-1), 30000) ms, and one failed attempt schedules one
\* attempt: it advances the attempt number by one.
C4_BackoffSchedule ==
    /\ \A i \in 1..Len(scheduled) :
           scheduled[i][2] = ClaimedDelay(scheduled[i][1])
    /\ Len(scheduled) <= 1

\* C5: a transport that reports open resets reconnectAttempts to 0; from
\* reconnectAttempts = 0 the next close schedules attempt 1 with the delay
\* initialReconnectDelay, and the budget is full: every attempt scheduled
\* from there is counted from 0, and 'maxReconnectAttemptsReached' is emitted
\* only after maxReconnectAttempts attempts were scheduled.
C5_Step ==
    /\ task' = "open" => reconnectAttempts' = 0
    /\ (reconnectAttempts = 0 /\ emitted'["close"] > 0) =>
           /\ Len(scheduled') >= 1
           /\ scheduled'[1] = <<1, initialReconnectDelay>>
           /\ reconnectAttempts' = Len(scheduled')
           /\ emitted'["maxReconnectAttemptsReached"] > 0 =>
                  Len(scheduled') = maxReconnectAttempts
    /\ (reconnectAttempts = 0 /\ reconnectAttempts' # 0) => emitted'["close"] > 0

C5_OpenResetsAttempts == [][C5_Step]_vars

\* C5 witness: after the first transport had closed, the second one opened
\* and closed in turn, and its close scheduled attempt 1 after
\* initialReconnectDelay
C5_Witness ==
    /\ task = "closed"
    /\ readyState[1] = "CLOSED"
    /\ promiseState[2] = "resolved" /\ readyState[2] = "CLOSED"
    /\ scheduled = <<<<1, initialReconnectDelay>>>>

\* C6: while the connection is open every heartbeat tick sends a ping, and a
\* tick that finds the last pong more than PongTimeout old closes the
\* transport and starts a new connection attempt; so an open connection is
\* never staler than PongTimeout + PingPeriod (the third tick after the last
\* pong at the latest).
C6_Step ==
    (task' = "pingTimer" /\ isConnected(This)) =>
        /\ sent' = <<<<ws, "ping">>>>
        /\ pongAge > PongTimeout =>
               /\ readyState'[ws] = "CLOSING"
               /\ ~connected'
               /\ ws' = nextId
               /\ readyState'[ws'] = "CONNECTING"

C6_Fresh == isConnected(This) => pongAge <= PongTimeout + PingPeriod

C6_HeartbeatBoundsStaleness == []C6_Fresh /\ [][C6_Step]_vars

\* C6 witness: a heartbeat tick has just sent a ping on transport 1, closed
\* it and started the attempt of transport 2
C6_Witness ==
    /\ task = "pingTimer"
    /\ sent = <<<<1, "ping">>>>
    /\ readyState[1] = "CLOSING"
    /\ ws = 2 /\ readyState[2] = "CONNECTING"

\* C7: a pong (and a transport's open) resets the liveness timer, nothing
\* else changes it but the passing of time, and a heartbeat tick closes the
\* connection only if the last pong is more than PongTimeout old.
C7_Step ==
    /\ task' \in {"pong", "open"} => pongAge' = 0
    /\ task' \notin {"pong", "open", "tick"} => pongAge' = pongAge
    /\ (task' = "pingTimer" /\ (nextId' # nextId \/ (connected /\ ~connected')))
           => pongAge > PongTimeout

C7_PongResetsLiveness == [][C7_Step]_vars

\* C7 witness: the only transport ever created is open, a pong arrived at
\* the instant its heartbeat was due, and the heartbeat tick sent its ping
\* and left the connection open
C7_Witness ==
    /\ task = "pingTimer"
    /\ sent = <<<<1, "ping">>>>
    /\ nextId = 2
    /\ pongAge = 0
    /\ isConnected(This)

\* C8: at most one transport wired to the manager is alive.  (The claim
\* counts every transport that is not yet closed; this counts only those
\* on which close() was not called either, so the claim implies it.)
C8_SingleWiredTransport ==
    Cardinality({t \in Ids : readyState[t] \in {"CONNECTING", "OPEN"}}) <= 1

\* C9: a task emits at most one 'reconnect' event, and only if a transport
\* opened since the previous 'reconnect' event.
C9_Step ==
    emitted'["reconnect"] > 0 =>
        /\ emitted'["reconnect"] = 1
        /\ openedSinceReconnect \/ task' = "open"

C9_OneReconnectPerReestablishment == [][C9_Step]_vars

\* C10: when a transport's close leaves the budget unexhausted, a reconnect
\* timer eventually fires and leaves the manager connected or connecting;
\* and the manager is disconnected with no attempt pending only if no
\* transport was ever created, the application closed the connection, or
\* the budget is exhausted.
C10_Lost ==
    /\ task \in {"fail", "closed"}
    /\ scheduled # <<>> \/ emitted["maxReconnectAttemptsReached"] = 0

C10_Attempted ==
    \/ /\ task = "reconnectTimer"
       /\ isConnected(This) \/ InFlight
    \/ nextId > MaxTransports

C10_Idle ==
    /\ ~connected
    /\ timers = <<>>
    /\ \A t \in Ids : readyState[t] # "CONNECTING"

C10_IdleOnlyIf ==
    C10_Idle => \/ \A t \in Ids : readyState[t] = "NONE"
                \/ closedByUser
                \/ reconnectAttempts >= maxReconnectAttempts

C10_ReconnectEventually == (C10_Lost ~> C10_Attempted) /\ []C10_IdleOnlyIf

\* C10 witness: a reconnect timer fired after a close and started the
\* attempt of a new transport
C10_Witness ==
    /\ task = "reconnectTimer"
    /\ InFlight
    /\ \E t \in Ids : readyState[t] = "CLOSED" /\ promiseState[t] = "resolved"

(***************************************************************************)
(* Subscription accounting.  The counter shares nothing with the           *)
(* connection: the two calls read and write this.subscriptionCount only.   *)
(***************************************************************************)
IncrementSubscriptionCount ==
    /\ LET r == incrementSubscriptionCount(This)
       IN  /\ subscriptionCount' = r.s.subscriptionCount
           /\ ret' = r.ret
    /\ task' = "increment"
    /\ UNCHANGED <<connection, emitted, scheduled, sent, history, symbols>>

DecrementSubscriptionCount ==
    /\ subscriptionCount' = decrementSubscriptionCount(This).subscriptionCount
    /\ ret' = NoReturn
    /\ task' = "decrement"
    /\ UNCHANGED <<connection, emitted, scheduled, sent, history, symbols>>

NextCount == IncrementSubscriptionCount \/ DecrementSubscriptionCount

CountSpec == Init /\ [][NextCount]_vars

\* C11: sendMessage called while the connection is not open throws, writes
\* no frame and changes no field of the manager; called while it is open
\* it writes exactly one frame to the current transport (and changes no
\* field either).
C11_Step ==
    task' = "send" =>
        /\ UNCHANGED fields
        /\ emitted' = NoEvents /\ scheduled' = <<>>
        /\ IF isConnected(This)
           THEN sent' = <<<<ws, "payload">>>> /\ ret' = NoReturn
           ELSE sent' = <<>> /\ ret' = Thrown

C11_SendNeedsOpen == [][C11_Step]_vars

\* C11 witness: sendMessage has thrown while the manager, disconnected, was
\* waiting for a reconnect timer
C11_Witness ==
    /\ task = "send"
    /\ ret = Thrown
    /\ ~connected /\ timers # <<>>
    /\ ws # 0 /\ readyState[ws] = "CLOSED"

\* C12: 0 <= subscriptionCount <= 1000 always; incrementSubscriptionCount
\* returns false and leaves the count as it is exactly when the count is
\* 1000, otherwise it returns true and adds one; decrementSubscriptionCount
\* at 0 leaves the count at 0.
C12_InRange == subscriptionCount >= 0 /\ subscriptionCount <= 1000

C12_Step ==
    /\ task' = "increment" =>
           IF subscriptionCount = 1000
           THEN ret' = Returned(FALSE) /\ subscriptionCount' = subscriptionCount
           ELSE ret' = Returned(TRUE) /\ subscriptionCount' = subscriptionCount + 1
    /\ (task' = "decrement" /\ subscriptionCount = 0) => subscriptionCount' = 0

C12_SubscriptionCap == []C12_InRange /\ [][C12_Step]_vars

\* C12 witness: an increment was refused at the cap
C12_Witness ==
    /\ task = "increment"
    /\ ret = Returned(FALSE)
    /\ subscriptionCount = 1000

\* C13: without a WebSocket implementation connect() returns a rejected
\* promise, no transport is ever created, no reconnect timer is scheduled,
\* the manager is neither connecting nor connected, and the next connect()
\* makes a fresh attempt (a new promise, not the rejected one).
C13_NoImplementation ==
    ~WebSocketImpl =>
        /\ ws = 0 /\ \A t \in Ids : readyState[t] = "NONE"
        /\ timers = <<>> /\ scheduled = <<>> /\ reconnectAttempts = 0
        /\ ~connecting /\ ~connected
        /\ Constructs(This)
        /\ task = "connect" =>
               /\ ret = PromiseRef(nextId - 1)
               /\ promiseState[nextId - 1] = "rejected"

\* C13 witness: without an implementation the second connect() has returned
\* a second, rejected promise
C13_Witness ==
    /\ ~WebSocketImpl
    /\ task = "connect"
    /\ ret = PromiseRef(2)
    /\ promiseState = [t \in Ids |-> IF t <= 2 THEN "rejected" ELSE "none"]

\* C14: a frame that cannot be decoded produces one 'error' event and no
\* 'message' event and changes no field of the manager (open flag, liveness
\* timestamp, heartbeat, reconnect counter, ...); every well-formed frame,
\* whatever came before it, produces exactly one 'message' event and no
\* 'error' event.
C14_Step ==
    /\ task' = "garbage" =>
           /\ emitted' = [NoEvents EXCEPT !["error"] = 1]
           /\ UNCHANGED fields
           /\ scheduled' = <<>> /\ sent' = <<>>
    /\ task' \in {"frame", "pong"} =>
           emitted' = [NoEvents EXCEPT !["message"] = 1]

C14_DecodeFailureIsolated == [][C14_Step]_vars

\* C14 witness: an open connection whose last pong is some time ago has
\* just received a frame it could not decode
C14_Witness ==
    /\ task = "garbage"
    /\ emitted["error"] = 1
    /\ isConnected(This)
    /\ pongAge > 0 /\ pongAge <= PongTimeout

\* the maps and the token set the instance holds
Maps == <<assetToIndexMap, exchangeToInternalNameMap, spotTokensSet>>

\* a refresh has just settled
RefreshSettled == {o \o " settled" : o \in Origins}

\* C15: the maps and the token set that lookups of an initialized instance
\* read are always those built by one successful refresh (the last one),
\* never cleared or partly rebuilt ones; so every lookup answers as it would
\* on the result of that refresh.
C15_LookupsSeeWholeGeneration ==
    initialized =>
        /\ Maps = lastGood
        /\ \A sym \in {"BTC-PERP", "ETH-PERP", "PURR-USDC"} :
               getAssetIndex(Conv, sym) =
                   getAssetIndex([Conv EXCEPT !.assetToIndexMap = lastGood[1]], sym)

\* C16: a refresh that fails leaves the two maps, the token set and the
\* initialized flag as they were.
C16_Step ==
    (task' \in RefreshSettled /\ ret'.kind = "rejected") =>
        /\ Maps' = Maps
        /\ initialized' = initialized

C16_FailedRefreshKeepsMaps == [][C16_Step]_vars

\* C17: a successful refresh sets the failure counter to 0, a failed refresh,
\* whoever started it, adds exactly one, and the caller sees the failure.
C17_Step ==
    task' \in RefreshSettled =>
        /\ response' \in {"Gen1", "Gen2"} =>
               ret'.kind = "resolved" /\ consecutiveFailures' = 0
        /\ response' \notin {"Gen1", "Gen2"} =>
               ret'.kind = "rejected" /\ consecutiveFailures' = consecutiveFailures + 1

C17_FailureCounter == [][C17_Step]_vars

\* C18: the periodic refresh that initialize() started stays enabled while
\* fewer than maxConsecutiveFailures periodic refreshes in a row have failed
\* (no other refresh failed and the application did not stop it), and once
\* the failure handling disabled it no timer-driven refresh starts.
C18_DisabledAtThreshold ==
    /\ (cleanRun /\ periodicFails < maxConsecutiveFailures) => refreshInterval
    /\ (selfDisabled /\ task = "refreshTimer") => FALSE

\* the maps a refresh builds from the two well-formed generations
GenMaps(name) ==
    IF name = "Gen1"
    THEN << <<<<"BTC-PERP", 0>>, <<"PURR-USDC", 10000>>>>,
            <<<<"BTC", "BTC-PERP">>, <<"PURR/USDC", "PURR-USDC">>>>,
            {"USDC", "PURR"} >>
    ELSE << <<<<"ETH-PERP", 0>>, <<"BTC-PERP", 1>>, <<"PURR-USDC", 10000>>>>,
            <<<<"ETH", "ETH-PERP">>, <<"BTC", "BTC-PERP">>,
              <<"PURR/USDC", "PURR-USDC">>>>,
            {"USDC", "PURR"} >>

\* C19: while the periodic refresh is self-disabled a direct refresh still
\* starts its requests; it succeeds exactly when the metadata is well
\* formed, and then the maps are those of the metadata and the failure
\* counter is 0; the timer stays disabled.
C19_Step ==
    (selfDisabled /\ ~refreshInterval) =>
        /\ task' = "refresh" => pending'["direct"] = pending["direct"] + 1
        /\ task' = "direct settled" =>
               /\ ~refreshInterval' /\ selfDisabled'
               /\ ret'.kind = "resolved" <=> response' \in {"Gen1", "Gen2"}
               /\ ret'.kind = "resolved" =>
                      /\ Maps' = GenMaps(response')
                      /\ consecutiveFailures' = 0

C19_DirectRefreshUnaffected == [][C19_Step]_vars

\* C19 witness: with the timer self-disabled a direct refresh has replaced
\* the maps of the first generation by those of the second
C19_Witness ==
    /\ task = "direct settled"
    /\ selfDisabled /\ ~refreshInterval
    /\ ret.kind = "resolved"
    /\ response = "Gen2"
    /\ Maps = GenMaps("Gen2")
    /\ consecutiveFailures = 0

\* C20: initialize() calls made while an initialization is in flight start
\* no further refresh, and after a successful initialize() a call starts
\* none either.
C20_OneInitialRefresh ==
    /\ pending["initialize"] <= 1
    /\ (initialized /\ task = "initialize") => ret = Immediate

\* the responses a refresh succeeds on
WellFormed == {"Gen1", "Gen2"}

\* C21: when the refresh of initialize() fails, initialize() rejects, the
\* initialized flag is left as it was and no periodic refresh is started;
\* an instance that is not initialized has no periodic refresh and fails
\* every lookup, and an initialize() call on it starts a refresh again.
C21_Uninitialized ==
    ~initialized =>
        /\ ~refreshInterval
        /\ \A sym \in {"BTC", "BTC-PERP", "PURR-USDC"} :
               /\ getAssetIndex(Conv, sym).thrown
               /\ getInternalName(Conv, sym).thrown
               /\ getExchangeName(Conv, sym).thrown

C21_Step ==
    /\ (task' = "initialize settled" /\ response' \notin WellFormed) =>
           /\ ret'.kind = "rejected"
           /\ initialized' = initialized
           /\ refreshInterval' => refreshInterval
    /\ (task' = "initialize" /\ ~initialized) =>
           /\ ret' = Pending
           /\ pending'["initialize"] = pending["initialize"] + 1

C21_InitializeFailure == []C21_Uninitialized /\ [][C21_Step]_vars

\* C21 witness: the only refresh in flight, started by initialize(), has
\* failed: the call rejected and the instance is not initialized
C21_Witness ==
    /\ task = "initialize settled"
    /\ ret.kind = "rejected"
    /\ response = "FetchError"
    /\ ~initialized /\ ~refreshInterval
    /\ InFlightRefreshes = 0
    /\ consecutiveFailures = 1

\* C22: an instance never has more than one refresh, started by
\* initialize() or by the periodic timer, awaiting its requests.
C22_OneRefreshInFlight == pending["initialize"] + pending["timer"] <= 1

\* C23: a lookup or conversion sends no request and changes nothing of the
\* instance; on an instance that is not initialized it fails, and on an
\* initialized one getAssetIndex, getInternalName and getExchangeName
\* succeed, with undefined for a key the maps do not hold.
C23_Step ==
    task' \in Lookups =>
        /\ pending' = pending
        /\ Maps' = Maps /\ initialized' = initialized
        /\ refreshInterval' = refreshInterval
        /\ ~initialized => ret'.kind = "rejected"
        /\ (initialized /\ task' \in {"getAssetIndex", "getInternalName",
                                      "getExchangeName", "getAllAssets"}) =>
               ret'.kind = "resolved"
        /\ (initialized /\ task' = "getAssetIndex"
              /\ \A i \in 1..Len(assetToIndexMap) :
                     assetToIndexMap[i][1] # ret'.args[1]) => ret'.value = <<>>
        /\ (initialized /\ task' = "getInternalName"
              /\ \A i \in 1..Len(exchangeToInternalNameMap) :
                     exchangeToInternalNameMap[i][1] # ret'.args[1]) =>
               ret'.value = <<>>
        /\ (initialized /\ task' = "getExchangeName"
              /\ \A i \in 1..Len(exchangeToInternalNameMap) :
                     exchangeToInternalNameMap[i][2] # ret'.args[1]) =>
               ret'.value = <<>>

C23_LookupsNeedInitialize == [][C23_Step]_vars

\* C23 witness: while the refresh of initialize() is in flight a lookup of a
\* name has failed
C23_Witness ==
    /\ task = "getInternalName"
    /\ ret.kind = "rejected"
    /\ ret.args = <<"BTC">>
    /\ ~initialized
    /\ pending["initialize"] = 1

\* a refresh started by initialize() or the timer has just succeeded on the
\* metadata r
SucceededOn(r) ==
    /\ task \in RefreshSettled
    /\ ret.kind = "resolved"
    /\ r = Response(response)

\* the names of the tokens with the index at position n of a market's tokens
TokenNames(r, market, n) ==
    {r.spotTokens.items[i].name :
        i \in {j \in 1..Len(r.spotTokens.items) :
                  /\ n <= Len(market.tokens.items)
                  /\ r.spotTokens.items[j].index = market.tokens.items[n]}}

\* the internal symbols of a market: BASE-QUOTE for its base and quote token
SpotSymbols(r, market) ==
    {base \o "-" \o quote : base \in TokenNames(r, market, 1),
                            quote \in TokenNames(r, market, 2)}

\* C24: after a successful refresh the perpetual asset at position i with
\* the name N has the symbol N-PERP and the index i; a spot market with the
\* index m whose tokens are B and Q has the symbol B-Q, the index 10000 + m
\* and its exchange name as the reverse lookup; a market with a token that
\* is not listed has no record.
C24_SymbolConstruction ==
    \A name \in LookupResponses : SucceededOn(Response(name)) =>
        LET r == Response(name)
        IN  /\ \A i \in 1..Len(r.perpUniverse.items) :
                   LET N == r.perpUniverse.items[i].name
                   IN  /\ getAssetIndex(Conv, N \o "-PERP").value = <<i - 1>>
                       /\ getInternalName(Conv, N).value = <<N \o "-PERP">>
            /\ \A j \in 1..Len(r.spotUniverse.items) :
                   LET market == r.spotUniverse.items[j]
                   IN  /\ \A sym \in SpotSymbols(r, market) :
                              /\ getAssetIndex(Conv, sym).value =
                                     <<10000 + market.index>>
                              /\ getExchangeName(Conv, sym).value = <<market.name>>
                       /\ SpotSymbols(r, market) = {} =>
                              /\ getInternalName(Conv, market.name).value = <<>>
                              /\ \A e \in 1..Len(assetToIndexMap) :
                                     assetToIndexMap[e][2] # 10000 + market.index

\* C24 witness: a refresh has succeeded on metadata with a market that has an
\* unlisted token and a market listed out of the order of the indices
C24_Witness ==
    /\ SucceededOn(UnknownToken)
    /\ initialized
    /\ getAssetIndex(Conv, "PURR-USDC").value = <<10000>>
    /\ getInternalName(Conv, "@2").value = <<>>

\* C25: two markets of one base token with different quote tokens have
\* different symbols and different indices, and each symbol goes to its own
\* market's exchange name and back.
C25_QuotesDoNotCollide ==
    \A name \in LookupResponses : SucceededOn(Response(name)) =>
        LET r == Response(name)
            markets == r.spotUniverse.items
        IN  \A j, k \in 1..Len(markets) :
                (/\ j # k
                 /\ TokenNames(r, markets[j], 1) = TokenNames(r, markets[k], 1)
                 /\ TokenNames(r, markets[j], 2) # TokenNames(r, markets[k], 2)) =>
                    \A sj \in SpotSymbols(r, markets[j]) :
                    \A sk \in SpotSymbols(r, markets[k]) :
                        /\ sj # sk
                        /\ getAssetIndex(Conv, sj).value # <<>>
                        /\ getAssetIndex(Conv, sj).value # getAssetIndex(Conv, sk).value
                        /\ getExchangeName(Conv, sj).value = <<markets[j].name>>
                        /\ getInternalName(Conv, markets[j].name).value = <<sj>>

\* C25 witness: PURR is traded against USDC and against USDT
C25_Witness ==
    /\ SucceededOn(TwoQuotes)
    /\ getAssetIndex(Conv, "PURR-USDC").value = <<10000>>
    /\ getAssetIndex(Conv, "PURR-USDT").value = <<10001>>
    /\ getExchangeName(Conv, "PURR-USDT").value = <<"@1">>
    /\ getInternalName(Conv, "@1").value = <<"PURR-USDT">>

\* the elements of a sequence
Range(seq) == {seq[i] : i \in 1..Len(seq)}

\* C26: after a successful refresh no symbol has two indices, a symbol that
\* ends with -PERP has an index below 10000 and every other symbol one from
\* 10000 on, and getAllAssets lists every symbol once, in perp or in spot.
C26_IndexSpaces ==
    (\E name \in LookupResponses : SucceededOn(Response(name))) =>
        LET m == assetToIndexMap
            lists == getAllAssets(Conv).value[1]
        IN  /\ \A i, j \in 1..Len(m) : m[i][1] = m[j][1] => i = j
            /\ \A i \in 1..Len(m) :
                   IF endsWith(m[i][1], "-PERP") THEN m[i][2] < 10000
                                                 ELSE m[i][2] >= 10000
            /\ Range(lists.perp) \cap Range(lists.spot) = {}
            /\ Range(lists.perp) \cup Range(lists.spot) = {m[i][1] : i \in 1..Len(m)}
            /\ Len(lists.perp) + Len(lists.spot) = Len(m)

\* C26 witness: the refresh built perpetual and spot symbols, among them the
\* market with the index 0
C26_Witness ==
    /\ SucceededOn(TwoQuotes)
    /\ getAllAssets(Conv).value[1] =
           [perp |-> <<"BTC-PERP", "PURR-PERP">>,
            spot |-> <<"PURR-USDC", "PURR-USDT">>]

\* C27: convertSymbol(symbol, '', 'PERP') ends with -PERP, is the symbol if
\* that ends with -PERP, and converting the result again changes nothing;
\* convertSymbol(symbol, '', 'SPOT') of the name of a spot token is the name.
C27_ConvertSymbolModes ==
    (task = "convertSymbol" /\ ret.kind = "resolved" /\ ret.args[2] = "") =>
        LET symbol == ret.args[1]
            result == ret.value[1]
        IN  /\ ret.args[3] = "PERP" =>
                   /\ endsWith(result, "-PERP")
                   /\ endsWith(symbol, "-PERP") => result = symbol
                   /\ convertSymbol(Conv, result, "", "PERP").value = <<result>>
            /\ (ret.args[3] = "SPOT" /\ symbol \in spotTokensSet) =>
                   result = symbol

\* C27 witness: PURR is a spot token and a perpetual asset, and SPOT mode
\* has left the name PURR alone
C27_Witness ==
    /\ task = "convertSymbol"
    /\ ret.args = <<"PURR", "", "SPOT">>
    /\ ret.value = <<"PURR">>
    /\ "PURR" \in spotTokensSet
    /\ getInternalName(Conv, "PURR").value = <<"PURR-PERP">>

\* str is one or more of the digits 0 to 9
IsDigits(str) ==
    /\ Len(str) >= 1
    /\ \A i \in 1..Len(str) :
           SubSeq(str, i, i) \in {"0", "1", "2", "3", "4", "5", "6", "7", "8", "9"}

\* str without its minus sign
Unsigned(str) ==
    IF Len(str) >= 1 /\ SubSeq(str, 1, 1) = "-" THEN SubSeq(str, 2, Len(str))
                                                 ELSE str

\* the integer that the digits of str write, with the sign of str
Signed(str, digits) ==
    IF Unsigned(str) = str THEN digitsValue(digits, 1, Len(digits))
                           ELSE -digitsValue(digits, 1, Len(digits))

\* convertToNumber(str) is to be y: the integer str writes if str matches
\* ^-?\d+$, the number str writes if it matches ^-?\d*\.\d+$, else str
NumberOrSame(str, y) ==
    LET u == Unsigned(str)
        dots == {k \in 1..Len(u) : SubSeq(u, k, k) = "."}
    IN  IF IsDigits(u)
        THEN y.type = "number" /\ y.scale = 0 /\ y.mantissa = Signed(str, u)
        ELSE IF \E k \in dots : /\ k = 1 \/ IsDigits(SubSeq(u, 1, k - 1))
                                /\ IsDigits(SubSeq(u, k + 1, Len(u)))
        THEN LET k == CHOOSE k \in dots : TRUE
                 digits == SubSeq(u, 1, k - 1) \o SubSeq(u, k + 1, Len(u))
             IN  /\ y.type = "number"
                 /\ y.mantissa * pow10(Len(u) - k) =
                        Signed(str, digits) * pow10(y.scale)
        ELSE y = Str(str)

\* y is x normalized outside the symbol fields; sideRule says whether the
\* value of the key 'side' is exempt as well, being 'sell' for 'A', 'buy'
\* for 'B' and itself otherwise
RECURSIVE Normalized(_, _, _)
Normalized(x, y, sideRule) ==
    IF x.type = "string" THEN NumberOrSame(x.string, y)
    ELSE IF x.type = "array"
    THEN /\ y.type = "array"
         /\ Len(y.items) = Len(x.items)
         /\ \A i \in 1..Len(x.items) : Normalized(x.items[i], y.items[i], sideRule)
    ELSE IF x.type = "object"
    THEN /\ y.type = "object"
         /\ Len(y.entries) = Len(x.entries)
         /\ \A i \in 1..Len(x.entries) :
                LET key == x.entries[i][1]
                    value == x.entries[i][2]
                    converted == y.entries[i][2]
                IN  /\ y.entries[i][1] = key
                    /\ IF key \in DefaultFields THEN TRUE
                       ELSE IF sideRule /\ key = "side"
                       THEN converted = IF value = Str("A") THEN Str("sell")
                                        ELSE IF value = Str("B") THEN Str("buy")
                                        ELSE value
                       ELSE Normalized(value, converted, sideRule)
    ELSE y = x

\* convertResponse has returned a payload
Converted == task = "convertResponse" /\ ret.kind = "resolved"

\* C28 as stated: outside the symbol fields every string that matches
\* ^-?\d+$ is replaced by the integer, every string that matches
\* ^-?\d*\.\d+$ by the number, and every other string and every other
\* scalar is passed through unchanged.
C28_StringsBecomeNumbers ==
    Converted => Normalized(ret.args[1], ret.value[1], FALSE)

\* C28, amended: the same outside the symbol fields and outside the values
\* of the key 'side'; the value of the key 'side' is 'sell' for 'A', 'buy'
\* for 'B' and else unchanged, and nothing in it is converted.
C28_StringsBecomeNumbersButSide ==
    Converted => Normalized(ret.args[1], ret.value[1], TRUE)

\* C28 witness: of an order's px "10" and side "A" the first has become the
\* number 10 and the second 'sell'
C28_Witness ==
    /\ Converted
    /\ ret.args[1] = Object(<<<<"px", Str("10")>>, <<"side", Str("A")>>>>)
    /\ ret.value[1] = Object(<<<<"px", Num(10, 0)>>, <<"side", Str("sell")>>>>)

\* y has the structure of x: the keys of x in every object, in their
\* order, and the length of x in every array, item by item
RECURSIVE SameStructure(_, _)
SameStructure(x, y) ==
    IF x.type = "array"
    THEN /\ y.type = "array"
         /\ Len(y.items) = Len(x.items)
         /\ \A i \in 1..Len(x.items) : SameStructure(x.items[i], y.items[i])
    ELSE IF x.type = "object"
    THEN /\ y.type = "object"
         /\ Len(y.entries) = Len(x.entries)
         /\ \A i \in 1..Len(x.entries) :
                /\ y.entries[i][1] = x.entries[i][1]
                /\ SameStructure(x.entries[i][2], y.entries[i][2])
    ELSE y.type \notin {"array", "object"}

\* C29: convertResponse on an initialized instance returns a payload with
\* the structure of its argument.
C29_SameStructure ==
    (task = "convertResponse" /\ initialized) =>
        /\ ret.kind = "resolved"
        /\ SameStructure(ret.args[1], ret.value[1])

\* the operations of ExchangeAPI that need an asset index
Operations ==
    {"placeOrder", "cancelOrder", "cancelOrderByCloid", "modifyOrder",
     "batchModifyOrders", "updateLeverage", "updateIsolatedMargin",
     "placeTwapOrder", "cancelTwapOrder"}

\* the last task was an operation that named a symbol without an index
NamedUnknown ==
    /\ task \in Operations
    /\ \E i \in 1..Len(ret.args[2]) :
           getAssetIndex(Conv, ret.args[2][i]).value = <<>>

C31_NoncesIncrease ==
    \A i, j \in 1..Len(exchange.nonces) :
        i < j => exchange.nonces[i] < exchange.nonces[j]

\* C31 witness: the clock went back below the nonce returned before, and the
\* nonce returned is the one before plus one
C31_Witness ==
    /\ task = "generateUniqueNonce"
    /\ Len(exchange.nonces) >= 3
    /\ ret.args[1] < exchange.nonces[Len(exchange.nonces) - 1]
    /\ ret.value[1] = exchange.nonces[Len(exchange.nonces) - 1] + 1
    /\ exchange.nonces[2] = exchange.nonces[1] + 1

\* C32: once the symbol cache is initialized, the initialization of the
\* client completes successfully, whatever the transport does.
C32_InitializeSucceeds == initialized ~> client._initialized

\* the connect() that the function behind _initializing awaits is awaiting
\* _initializing
SelfWait == client.awaits = "connect" /\ client.connectAwaits = "_initializing"

\* C34: no call waits on a promise that only it can settle, and the calls
\* that await the initialization are settled in the end.
C34_CallsSettle ==
    /\ []~SelfWait
    /\ (client.calls > 0) ~> (client.calls = 0)

\* the last task was a call of the client
Called == {"client." \o method : method \in Methods}

C35_OneAttempt ==
    /\ pending["initialize"] <= 1
    /\ client._initializing <=> client.awaits # "none"
    /\ client.awaits = "symbolConversion.initialize" <=> pending["initialize"] = 1
    /\ client._initialized => initialized /\ ~client._initializing
    /\ client.calls > 0 => client._initializing

C35_Step ==
    /\ (task' \in Called /\ client._initializing) =>
           \* the call shares the promise in flight
           /\ pending' = pending
           /\ client' = [client EXCEPT !.calls = @ + 1]
    /\ (task' \in Called /\ client._initialized) =>
           \* the call does no work
           /\ client' = client
           /\ Maps' = Maps /\ pending' = pending
    /\ (task' \in Called /\ ~client._initializing /\ ~client._initialized) =>
           \* the call starts an attempt
           /\ client'._initializing
           /\ pending'["initialize"] = 1
    /\ (client'._initialized /\ ~client._initialized) =>
           /\ task' = "client.initialize settled"
           /\ ret'.kind = "resolved"
           /\ initialized'
    /\ (task' = "client.initialize settled" /\ ret'.kind = "rejected") =>
           /\ ~client'._initializing
           /\ ~client'._initialized

\* C35: the calls made while an initialization is in flight share its
\* promise, and symbolConversion.initialize() is called once per attempt;
\* _initialized becomes true only when the attempt has succeeded; a failed
\* attempt clears _initializing, and the next call starts a new attempt;
\* after the success a call does nothing.
C35_SharedInitialization == []C35_OneAttempt /\ [][C35_Step]_vars

\* C35 witness: after a failed attempt a second one is in flight, with one
\* refresh, and three calls await it
C35_Witness ==
    /\ task = "client.ensureInitialized"
    /\ consecutiveFailures >= 1
    /\ client._initializing
    /\ client.calls = 3
    /\ pending["initialize"] = 1

\* the keys with a listener
Listened == {key \in Keys : registry.listeners[key] >= 1}

C33_OnePerKey ==
    /\ \A key \in Keys :
           /\ registry.outstanding[key] \in {0, 1}
           /\ registry.outstanding[key] = 1 <=> key \in Listened
    /\ subscriptionCount = Cardinality(Listened)

C33_Step ==
    /\ task' = "subscribe" =>
           LET key == ret'.args[1]
           IN  IF registry.listeners[key] = 0 /\ registry'.listeners[key] = 1
               THEN sent' = <<<<ws, <<"subscribe", key>>>>>>
               ELSE sent' = <<>>
    /\ task' = "unsubscribe" =>
           LET key == ret'.args[1]
           IN  IF registry.listeners[key] = 1 /\ registry'.listeners[key] = 0
               THEN sent' = <<<<ws, <<"unsubscribe", key>>>>>>
               ELSE sent' = <<>>

ActiveHeartbeats == {i \in Ids : pingTimers[i] >= 0}

\* C36: at most one heartbeat interval is active, none is active while the
\* connection is not open, and an active one is the one the manager holds
\* in pingInterval.
C36_OneHeartbeat ==
    /\ Cardinality(ActiveHeartbeats) <= 1
    /\ ~connected => ActiveHeartbeats = {}
    /\ ActiveHeartbeats \subseteq {pingInterval}

\* C37: at most one reconnect timer is pending, and none is pending while
\* the connection is open.
C37_OneReconnectTimer ==
    /\ Len(timers) <= 1
    /\ isConnected(This) => timers = <<>>

\* the internal symbols with an index, and those with an exchange name
IndexedSymbols == {assetToIndexMap[i][1] : i \in 1..Len(assetToIndexMap)}
NamedSymbols ==
    {exchangeToInternalNameMap[i][2] : i \in 1..Len(exchangeToInternalNameMap)}

\* C38: after a successful refresh the symbols that have an index are the
\* symbols that are a value of the exchange-name map; on an initialized
\* instance getExchangeName is defined for every symbol with an index, and
\* getAssetIndex for every symbol getInternalName returns.
C38_MapsAgree ==
    (\E name \in LookupResponses : SucceededOn(Response(name))) =>
        /\ IndexedSymbols = NamedSymbols
        /\ initialized =>
               /\ \A symbol \in IndexedSymbols :
                      getExchangeName(Conv, symbol).value # <<>>
               /\ \A i \in 1..Len(exchangeToInternalNameMap) :
                      LET name == exchangeToInternalNameMap[i][1]
                          symbol == getInternalName(Conv, name).value[1]
                      IN  getAssetIndex(Conv, symbol).value # <<>>

\* C38 witness: a refresh has succeeded on metadata with a perpetual asset, a
\* recorded market and a market that is skipped for its unlisted token
C38_Witness ==
    /\ SucceededOn(UnknownToken)
    /\ initialized
    /\ IndexedSymbols = {"PURR-PERP", "PURR-USDC"}
    /\ getExchangeName(Conv, "PURR-PERP").value = <<"PURR">>
    /\ getExchangeName(Conv, "PURR-USDC").value = <<"PURR/USDC">>

\* the generation of the metadata the maps reflect: ETH is listed from the
\* second generation on
ServedGeneration ==
    IF mapHas(assetToIndexMap, "ETH-PERP") THEN 2
    ELSE IF mapHas(assetToIndexMap, "BTC-PERP") THEN 1
    ELSE 0

\* C39: when refreshes overlap or follow each other, the generation that the
\* maps reflect never goes backwards.
C39_NeverBackwards == [][ServedGeneration' >= ServedGeneration]_vars

\* the timers fire when they are due, and time passes
LiveSpec ==
    /\ Spec
    /\ WF_vars(Tick)
    /\ WF_vars(ReconnectTimer)
    /\ \A i \in Ids : WF_vars(PingTimer(i))

=============================================================================
